---- MODULE Spec2Model ----
(***************************************************************************)
(* Model of the time-series pattern and anomaly engine of the PULSE system *)
(* monitor (memory-monitor/scripts):                                       *)
(*   ml_anomaly_detector.py  MemoryAnomalyDetector                         *)
(*   memory_monitor.py       MemoryMonitor                                 *)
(*   process_tracker.py      ProcessMemoryTracker                          *)
(*                                                                         *)
(* The three classes are separate objects that share no state.  A          *)
(* behaviour drives one of them; `script` names which one.                 *)
(*                                                                         *)
(* Numbers.  Metrics are integers.  A z-score |c - mean| / std over a      *)
(* column of n integers with sum S and sum of squares Q is the exact real  *)
(* |n*c - S| / sqrt(n*Q - S*S); it is kept as the pair <<a, b>> standing   *)
(* for a / sqrt(b).  A reported score is an exact real number in the       *)
(* canonical form "sum of q_r * sqrt(r)" (see Num below), so that equality *)
(* of scores in the model is numeric equality.                             *)
(***************************************************************************)
EXTENDS Integers, Sequences, FiniteSets, TLC

VARIABLES
    script,              \* which operation stream this behaviour drives
    now,                 \* number of samples taken so far (the timestamp source)
    sklearn_available,   \* SKLEARN_AVAILABLE, fixed at import time
    memory_sequences,    \* MemoryAnomalyDetector.memory_sequences['global']
    history,             \* MemoryMonitor.history: pid -> deque(maxlen=100) of rss
    process_patterns,    \* MemoryMonitor.process_patterns: pid -> 'samples' list
    process_histories,   \* ProcessMemoryTracker.process_histories: pid -> deque(maxlen=200)
    process_dna,         \* ProcessMemoryTracker.process_dna: pid -> dna_info
    db_dna,              \* rows of table process_dna: pid -> dna_hash, last_updated
    lock,                \* ProcessMemoryTracker.lock: the thread that holds it, or "free"
    pc,                  \* where each thread of SpecThreads stands
    local,               \* the local variables of each thread of SpecThreads
    arg,                 \* argument of the last call made
    result               \* what the last call returned (or the error it raised)

detector_vars == <<sklearn_available, memory_sequences>>
monitor_vars == <<history, process_patterns>>
tracker_vars == <<process_histories, process_dna, db_dna, lock>>
thread_vars == <<pc, local>>
vars == <<script, now, detector_vars, monitor_vars, tracker_vars, thread_vars, arg, result>>

(***************************************************************************)
(* Program constants.                                                      *)
(***************************************************************************)
GlobalCapacity == 100     \* len(memory_sequences['global']) > 100 -> pop(0)
HistoryMaxLen == 100      \* MemoryMonitor.history: deque(maxlen=100)
SamplesMax == 20          \* len(patterns) > 20 -> pop(0)
TrackerMaxLen == 200      \* ProcessMemoryTracker.process_histories: deque(maxlen=200)
DnaMinSamples == 5        \* len(process_history) < 5 / len(history) < 5
DnaEvery == 10            \* len(self.process_histories[pid]) % 10 == 0
LeakMinSamples == 10      \* len(self.history[pid]) >= 10
MinSamples == 5           \* len(sequence) < 5 / len(historical_features) < 5
MlMinSamples == 10        \* len(historical_features) >= 10

(***************************************************************************)
(* Bounds of the model.                                                    *)
(***************************************************************************)
MaxCalls == 11            \* samples fed to the detector in Spec
Extra == 3                \* appends made beyond a window's capacity in SpecWindows
MaxHist == 6              \* longest history given to simple_anomaly_detection in SpecStat

(***************************************************************************)
(* Integer helpers.                                                        *)
(***************************************************************************)
Abs(x) == IF x < 0 THEN -x ELSE x

Min(a, b) == IF a <= b THEN a ELSE b

\* square roots are looked for up to MaxRoot: the square of a larger number
\* is beyond the integers of the model (32 bits)
MaxRoot == 46340

RECURSIVE GCD(_, _)
GCD(a, b) == IF b = 0 THEN a ELSE GCD(b, a % b)

SetMax(S) == CHOOSE x \in S : \A y \in S : y <= x

\* the largest s with s*s dividing b (b > 0)
SquarePart(b) == SetMax({s \in 1..Min(b, MaxRoot) : s <= b \div s /\ b % (s * s) = 0})

Front(s) == SubSeq(s, 1, Len(s) - 1)
Last(s) == s[Len(s)]

\* rationals <<n, d>> in lowest terms, d > 0
RatNorm(n, d) ==
    LET g == GCD(Abs(n), Abs(d))
        sgn == IF d < 0 THEN -1 ELSE 1
    IN <<(sgn * n) \div g, (sgn * d) \div g>>

RatAdd(p, q) == RatNorm(p[1] * q[2] + q[1] * p[2], p[2] * q[2])

RatMul(p, q) ==
    LET g1 == GCD(Abs(p[1]), q[2])
        g2 == GCD(Abs(q[1]), p[2])
    IN <<(p[1] \div g1) * (q[1] \div g2), (p[2] \div g2) * (q[2] \div g1)>>

\* p / q for q # 0
RatDiv(p, q) == RatMul(p, RatNorm(q[2], q[1]))

RatGt(p, q) == p[1] * q[2] > q[1] * p[2]

\* sums, by halves (the order of the additions does not matter: they are exact)
RECURSIVE SumRange(_, _, _)
SumRange(s, lo, hi) ==
    IF lo > hi THEN 0
    ELSE IF lo = hi THEN s[lo]
    ELSE LET mid == (lo + hi) \div 2 IN SumRange(s, lo, mid) + SumRange(s, mid + 1, hi)

SeqSum(s) == SumRange(s, 1, Len(s))

RECURSIVE RatSumRange(_, _, _)
RatSumRange(s, lo, hi) ==
    IF lo > hi THEN <<0, 1>>
    ELSE IF lo = hi THEN s[lo]
    ELSE LET mid == (lo + hi) \div 2
         IN RatAdd(RatSumRange(s, lo, mid), RatSumRange(s, mid + 1, hi))

RatSum(s) == RatSumRange(s, 1, Len(s))

\* dictionaries: a function whose domain is the set of keys present
EmptyMap == [k \in {} |-> <<>>]
Get(m, k) == IF k \in DOMAIN m THEN m[k] ELSE <<>>
Put(m, k, v) == [x \in DOMAIN m \cup {k} |-> IF x = k THEN v ELSE m[x]]

\* np.polyfit(np.arange(len(values)), values, 1)[0] for len(values) >= 2
Slope(values) ==
    LET n == Len(values)
        sx == SeqSum([i \in 1..n |-> i - 1])
        sxx == SeqSum([i \in 1..n |-> (i - 1) * (i - 1)])
        sy == SeqSum(values)
        sxy == SeqSum([i \in 1..n |-> (i - 1) * values[i]])
    IN RatNorm(n * sxy - sx * sy, n * sxx - sx * sx)

\* np.mean(values) for len(values) >= 1
Mean(values) == RatNorm(SeqSum(values), Len(values))

\* np.std(values) squared
Variance(values) ==
    LET n == Len(values)
        sy == SeqSum(values)
        syy == SeqSum([i \in 1..n |-> values[i] * values[i]])
    IN RatNorm(n * syy - sy * sy, n * n)

\* a list built by a comprehension or np.array: stored, not recomputed on access
AsList(s) == s \o <<>>

RatMean(values) == RatMul(RatSum(values), <<1, Len(values)>>)

RatVariance(values) ==
    LET mean == RatMean(values)
        squares == AsList([i \in 1..Len(values) |-> RatMul(values[i], values[i])])
    IN RatAdd(RatMean(squares), RatMul(<<-1, 1>>, RatMul(mean, mean)))

(***************************************************************************)
(* Exact real numbers of the form  sum over squarefree r of q_r * sqrt(r), *)
(* q_r a non-zero rational in lowest terms: a set of <<r, num, den>>.      *)
(* The representation is canonical: two numbers are equal iff their sets   *)
(* are.                                                                    *)
(***************************************************************************)
NumZero == {}

Rat(n, d) ==
    IF n = 0 THEN NumZero
    ELSE LET g == GCD(Abs(n), d) IN {<<1, n \div g, d \div g>>}

\* the z-score a / sqrt(b) = (a / (s*r)) * sqrt(r)   where b = s*s*r
NumOfZ(z) ==
    IF z[1] = 0 THEN NumZero
    ELSE LET s == SquarePart(z[2])
             r == z[2] \div (s * s)
             g == GCD(z[1], s * r)
         IN {<<r, z[1] \div g, (s * r) \div g>>}

Radicands(x) == {t[1] : t \in x}
Coef(x, r) == IF r \in Radicands(x)
              THEN LET t == CHOOSE u \in x : u[1] = r IN <<t[2], t[3]>>
              ELSE <<0, 1>>

NumAdd(x, y) ==
    LET term(r) == LET p == Coef(x, r)
                       q == Coef(y, r)
                       n == p[1] * q[2] + q[1] * p[2]
                       d == p[2] * q[2]
                       g == GCD(Abs(n), d)
                   IN <<r, n \div g, d \div g>>
    IN {t \in {term(r) : r \in Radicands(x) \cup Radicands(y)} : t[2] # 0}

NumDivInt(x, k) ==
    {LET g == GCD(Abs(t[2]), t[3] * k) IN <<t[1], t[2] \div g, (t[3] * k) \div g>> : t \in x}

RECURSIVE NumSumZ(_)
NumSumZ(zs) == IF zs = <<>> THEN NumZero ELSE NumAdd(NumOfZ(Head(zs)), NumSumZ(Tail(zs)))

(***************************************************************************)
(* z-scores  <<a, b>> = a / sqrt(b),  a >= 0, b > 0.                       *)
(***************************************************************************)
ZLe(z1, z2) == z1[1] * z1[1] * z2[2] <= z2[1] * z2[1] * z1[2]
\* z > k / 2 for a natural k  (z > 3 is ZGtHalf(z, 6), z > 1.5 is ZGtHalf(z, 3))
ZGtHalf(z, k) == 4 * z[1] * z[1] > k * k * z[2]

\* max(anomaly_scores)
MaxZ(zs) == zs[CHOOSE i \in 1..Len(zs) : \A j \in 1..Len(zs) : ZLe(zs[j], zs[i])]

\* z*z in lowest terms
ZSquare(z) ==
    LET g == GCD(z[1] * z[1], z[2]) IN <<(z[1] * z[1]) \div g, z[2] \div g>>

\* z1 + z2 > 3 for z1, z2 <= 2.  With x_i = z_i^2 = P_i / Q_i and M = Q1*Q2:
\* z2 > 3 - z1  iff  6*z1 > 9 + x1 - x2 = N / M  iff  36*P1*Q2*M > N*N
\* (N > 0 because x2 <= 4).  N = u*M + v keeps the products in range:
\* 36*P1*Q2 > u*u*M + 2*u*v + v*v/M.
SumGt3(z1, z2) ==
    LET x1 == ZSquare(z1)
        x2 == ZSquare(z2)
        M  == x1[2] * x2[2]
        N  == 9 * M + x1[1] * x2[2] - x2[1] * x1[2]
        u  == N \div M
        v  == N % M
    IN 36 * x1[1] * x2[2] > u * u * M + 2 * u * v + (v * v) \div M

\* np.mean(anomaly_scores) > 1.5  (one or two contributing features)
MeanGt15(zs) ==
    IF Len(zs) = 1 THEN ZGtHalf(zs[1], 3) ELSE SumGt3(zs[1], zs[2])

\* np.mean(anomaly_scores) as a number
MeanZ(zs) == NumDivInt(NumSumZ(zs), Len(zs))

(***************************************************************************)
(* MemoryAnomalyDetector.extract_features.  The model keeps two of the     *)
(* eight features, features[0] = physical percent and features[2] = swap   *)
(* percent; the divisions by total and by (total - used) raise             *)
(* ZeroDivisionError on integer operands.                                  *)
(***************************************************************************)
ExtractRaises(memory_data) ==
    \/ memory_data.total = 0                      \* available / total
    \/ memory_data.total = memory_data.used      \* available / (total - used)

extract_features(memory_data) == <<memory_data.percent, memory_data.swap_percent>>

(***************************************************************************)
(* MemoryAnomalyDetector.simple_anomaly_detection                          *)
(***************************************************************************)
ColSum(hist, i) == SeqSum([k \in 1..Len(hist) |-> hist[k][i]])

ColSumSq(hist, i) == SeqSum([k \in 1..Len(hist) |-> hist[k][i] * hist[k][i]])

\* n*n*variance of column i: std > 0 iff this is > 0
ColSpread(hist, i) == Len(hist) * ColSumSq(hist, i) - ColSum(hist, i) * ColSum(hist, i)

\* abs(current - mean) / std  for column i
ZScore(current, hist, i) ==
    <<Abs(Len(hist) * current[i] - ColSum(hist, i)), ColSpread(hist, i)>>

\* anomaly_scores: the z-scores of the features with std > 0, in feature order
RECURSIVE AnomalyScoresFrom(_, _, _)
AnomalyScoresFrom(current, hist, i) ==
    IF i > Len(current) THEN <<>>
    ELSE IF ColSpread(hist, i) > 0
         THEN <<ZScore(current, hist, i)>> \o AnomalyScoresFrom(current, hist, i + 1)
         ELSE AnomalyScoresFrom(current, hist, i + 1)

AnomalyScores(current, hist) == AnomalyScoresFrom(current, hist, 1)

\* variant: the MEDIUM threshold is tested before the HIGH threshold
simple_anomaly_detection_medium_first(current_features, historical_features) ==
    IF Len(historical_features) < MinSamples
    THEN [score |-> NumZero, status |-> "Insufficient historical data"]
    ELSE LET anomaly_scores == AnomalyScores(current_features, historical_features)
         IN IF anomaly_scores # <<>>
            THEN LET max_anomaly_score == MaxZ(anomaly_scores)
                 IN IF ZGtHalf(max_anomaly_score, 4)
                    THEN [score |-> NumOfZ(max_anomaly_score), status |-> "MEDIUM_ANOMALY"]
                    ELSE IF ZGtHalf(max_anomaly_score, 6)
                    THEN [score |-> NumOfZ(max_anomaly_score), status |-> "HIGH_ANOMALY"]
                    ELSE IF MeanGt15(anomaly_scores)
                    THEN [score |-> MeanZ(anomaly_scores), status |-> "LOW_ANOMALY"]
                    ELSE [score |-> MeanZ(anomaly_scores), status |-> "NORMAL"]
            ELSE [score |-> NumZero, status |-> "NORMAL"]

\* variant: every branch returns max_anomaly_score
simple_anomaly_detection_max_score(current_features, historical_features) ==
    IF Len(historical_features) < MinSamples
    THEN [score |-> NumZero, status |-> "Insufficient historical data"]
    ELSE LET anomaly_scores == AnomalyScores(current_features, historical_features)
         IN IF anomaly_scores # <<>>
            THEN LET max_anomaly_score == MaxZ(anomaly_scores)
                 IN IF ZGtHalf(max_anomaly_score, 6)
                    THEN [score |-> NumOfZ(max_anomaly_score), status |-> "HIGH_ANOMALY"]
                    ELSE IF ZGtHalf(max_anomaly_score, 4)
                    THEN [score |-> NumOfZ(max_anomaly_score), status |-> "MEDIUM_ANOMALY"]
                    ELSE IF MeanGt15(anomaly_scores)
                    THEN [score |-> NumOfZ(max_anomaly_score), status |-> "LOW_ANOMALY"]
                    ELSE [score |-> NumOfZ(max_anomaly_score), status |-> "NORMAL"]
            ELSE [score |-> NumZero, status |-> "NORMAL"]

simple_anomaly_detection(current_features, historical_features) ==
    IF Len(historical_features) < MinSamples
    THEN [score |-> NumZero, status |-> "Insufficient historical data"]
    ELSE LET anomaly_scores == AnomalyScores(current_features, historical_features)
         IN IF anomaly_scores # <<>>
            THEN LET max_anomaly_score == MaxZ(anomaly_scores)
                 IN IF ZGtHalf(max_anomaly_score, 6)
                    THEN [score |-> NumOfZ(max_anomaly_score), status |-> "HIGH_ANOMALY"]
                    ELSE IF ZGtHalf(max_anomaly_score, 4)
                    THEN [score |-> NumOfZ(max_anomaly_score), status |-> "MEDIUM_ANOMALY"]
                    ELSE IF MeanGt15(anomaly_scores)
                    THEN [score |-> MeanZ(anomaly_scores), status |-> "LOW_ANOMALY"]
                    ELSE [score |-> MeanZ(anomaly_scores), status |-> "NORMAL"]
            ELSE [score |-> NumZero, status |-> "NORMAL"]

(***************************************************************************)
(* MemoryAnomalyDetector.detect_trends                                     *)
(***************************************************************************)
TrendSamples == 10        \* sequence[-10:]
TrendMinSamples == 5      \* len(sequence) < 5 / len(memory_usage) >= 5
PeriodSamples == 20       \* len(sequence) >= 20 / sequence[-20:]

\* [item['features'][0] for item in sequence[-count:]]
LastUsage(sequence, count) ==
    LET from == IF Len(sequence) > count THEN Len(sequence) - count ELSE 0
    IN AsList([k \in 1..(Len(sequence) - from) |-> sequence[from + k].features[1]])

\* np.correlate(v, v, mode='full')[size // 2:]: entry k (from 0) is the sum of
\* the products of the values k places apart
Autocorr(usage_values) ==
    [k \in 0..(Len(usage_values) - 1) |->
        SeqSum([i \in 1..(Len(usage_values) - k) |-> usage_values[i] * usage_values[i + k]])]

\* the lags 2 .. len - 3 whose entry is above both of its neighbours
Peaks(autocorr, len) ==
    {i \in 2..(len - 3) : autocorr[i] > autocorr[i - 1] /\ autocorr[i] > autocorr[i + 1]}

SetMin(S) == CHOOSE x \in S : \A y \in S : x <= y

TrendPatternBothSigns(memory_usage) ==
    IF Len(memory_usage) < TrendMinSamples THEN <<>>
    ELSE IF RatGt(Slope(memory_usage), <<1, 1>>)
    THEN <<[type |-> "INCREASING_MEMORY_USAGE",
            slope |-> Slope(memory_usage),
            severity |-> IF RatGt(Slope(memory_usage), <<5, 1>>) THEN "HIGH" ELSE "MEDIUM"]>>
    ELSE IF RatGt(<<-1, 1>>, Slope(memory_usage))
    THEN <<[type |-> "DECREASING_MEMORY_USAGE", slope |-> Slope(memory_usage),
            severity |-> IF RatGt(<<-5, 1>>, Slope(memory_usage)) THEN "HIGH" ELSE "MEDIUM"]>>
    ELSE <<>>

TrendPattern(memory_usage) ==
    IF Len(memory_usage) < TrendMinSamples THEN <<>>
    ELSE IF RatGt(Slope(memory_usage), <<1, 1>>)
    THEN <<[type |-> "INCREASING_MEMORY_USAGE",
            slope |-> Slope(memory_usage),
            severity |-> IF RatGt(Slope(memory_usage), <<5, 1>>) THEN "HIGH" ELSE "MEDIUM"]>>
    ELSE IF RatGt(<<-1, 1>>, Slope(memory_usage))
    THEN <<[type |-> "DECREASING_MEMORY_USAGE", slope |-> Slope(memory_usage),
            severity |-> "LOW"]>>
    ELSE <<>>

PeriodicPattern(sequence) ==
    IF Len(sequence) < PeriodSamples THEN <<>>
    ELSE LET usage_values == LastUsage(sequence, PeriodSamples)
             autocorr == Autocorr(usage_values)
             peaks == Peaks(autocorr, Len(usage_values))
         IN IF Len(usage_values) > 5 /\ peaks # {}
            THEN <<[type |-> "PERIODIC_PATTERN",
                    period |-> SetMin(peaks),
                    strength |-> SetMax({autocorr[i] : i \in peaks})]>>
            ELSE <<>>

detect_trends(sequence) ==
    IF Len(sequence) < TrendMinSamples THEN <<>>
    ELSE TrendPattern(LastUsage(sequence, TrendSamples)) \o PeriodicPattern(sequence)

(***************************************************************************)
(* MemoryAnomalyDetector.detect_ml_patterns, on the features that the      *)
(* model keeps: features[0] and features[2] of the code.                   *)
(***************************************************************************)
FeatureIndex == <<0, 2>>

\* std > 0.5 * mean and std > 0.1 for column i of X
HighVariance(X, i) ==
    /\ ColSum(X, i) < 0 \/ 4 * ColSpread(X, i) > ColSum(X, i) * ColSum(X, i)
    /\ 100 * ColSpread(X, i) > Len(X) * Len(X)

detect_ml_patterns(X) ==
    IF Len(X) < MlMinSamples THEN <<>>
    ELSE IF \E i \in 1..Len(FeatureIndex) : HighVariance(X, i)
    THEN <<[type |-> "HIGH_VARIABILITY",
            features |-> SelectSeq(FeatureIndex,
                                   LAMBDA f : \E i \in 1..Len(FeatureIndex) :
                                                 FeatureIndex[i] = f /\ HighVariance(X, i))]>>
    ELSE <<>>

(***************************************************************************)
(* MemoryAnomalyDetector.ml_anomaly_detection.  The scaler and the         *)
(* isolation forest are the sklearn library: what they compute is an       *)
(* input of the model, `ml` = [fails, score].  predict() gives -1 exactly  *)
(* when decision_function() < 0.                                           *)
(***************************************************************************)
MlOutcomes ==
    {[fails |-> TRUE, score |-> 0], [fails |-> FALSE, score |-> -1], [fails |-> FALSE, score |-> 1]}

\* variant: a failure is swallowed and reported as NORMAL
ml_anomaly_detection_swallow(current_features, historical_features, ml) ==
    IF ~ml.fails
    THEN [anomaly_score |-> Rat(ml.score, 10),
          status |-> IF ml.score < 0 THEN "ANOMALY_DETECTED" ELSE "NORMAL",
          patterns |-> detect_ml_patterns(historical_features),
          method |-> "machine_learning"]
    ELSE [anomaly_score |-> NumZero,
          status |-> "NORMAL",
          patterns |-> <<>>,
          method |-> "statistical_fallback",
          error |-> "Exception"]

\* variant: the fallback result is tagged like a plain statistical result
ml_anomaly_detection_plain_tag(current_features, historical_features, ml) ==
    IF ~ml.fails
    THEN [anomaly_score |-> Rat(ml.score, 10),
          status |-> IF ml.score < 0 THEN "ANOMALY_DETECTED" ELSE "NORMAL",
          patterns |-> detect_ml_patterns(historical_features),
          method |-> "machine_learning"]
    ELSE LET r == simple_anomaly_detection(current_features, historical_features)
         IN [anomaly_score |-> r.score,
             status |-> r.status,
             patterns |-> <<>>,
             method |-> "statistical",
             error |-> "Exception"]

ml_anomaly_detection(current_features, historical_features, ml) ==
    IF ~ml.fails
    THEN [anomaly_score |-> Rat(ml.score, 10),
          status |-> IF ml.score < 0 THEN "ANOMALY_DETECTED" ELSE "NORMAL",
          patterns |-> detect_ml_patterns(historical_features),
          method |-> "machine_learning"]
    ELSE LET r == simple_anomaly_detection(current_features, historical_features)
         IN [anomaly_score |-> r.score,
             status |-> r.status,
             patterns |-> <<>>,
             method |-> "statistical_fallback",
             error |-> "Exception"]

(***************************************************************************)
(* MemoryAnomalyDetector.detect_memory_patterns                            *)
(***************************************************************************)
\* variant: pop() in place of pop(0)
AppendGlobalPopLast(sequence, item) ==
    LET s == Append(sequence, item)
    IN IF Len(s) > GlobalCapacity THEN Front(s) ELSE s

\* append, then drop the oldest entry when more than 100 are held
AppendGlobal(sequence, item) ==
    LET s == Append(sequence, item)
    IN IF Len(s) > GlobalCapacity THEN Tail(s) ELSE s

FeaturesOf(sequence) == [k \in 1..Len(sequence) |-> sequence[k].features]

\* UsesMl with the current sample counted among the 10
UsesMlCountingCurrent(sequence, have_sklearn) ==
    Len(sequence) >= MinSamples /\ have_sklearn /\ Len(sequence) >= MlMinSamples

\* the model path is taken for a sequence that holds the current sample
UsesMl(sequence, have_sklearn) ==
    Len(sequence) >= MinSamples /\ have_sklearn /\ Len(sequence) - 1 >= MlMinSamples

\* the value detect_memory_patterns returns once `sequence` holds the current sample
PatternsResult(sequence, have_sklearn, ml) ==
    IF Len(sequence) < MinSamples
    THEN [anomaly_score |-> NumZero, status |-> "LEARNING", patterns |-> <<>>]
    ELSE LET current_features == Last(sequence).features
             historical_features == FeaturesOf(Front(sequence))
         IN IF UsesMl(sequence, have_sklearn)
            THEN ml_anomaly_detection(current_features, historical_features, ml)
            ELSE LET r == simple_anomaly_detection(current_features, historical_features)
                 IN [anomaly_score |-> r.score, status |-> r.status,
                     patterns |-> detect_trends(sequence), method |-> "statistical"]

detect_memory_patterns(memory_data, ml) ==
    /\ script = "detect_memory_patterns"
    /\ IF ExtractRaises(memory_data)
       THEN /\ result' = [raised |-> "ZeroDivisionError"]
            /\ arg' = [memory_data |-> memory_data, ml |-> [called |-> FALSE]]
            /\ UNCHANGED <<now, memory_sequences>>
       ELSE /\ now' = now + 1
            /\ memory_sequences' =
                   AppendGlobal(memory_sequences,
                                [timestamp |-> now + 1, features |-> extract_features(memory_data)])
            /\ arg' = [memory_data |-> memory_data,
                       ml |-> IF UsesMl(memory_sequences', sklearn_available)
                              THEN [called |-> TRUE, fails |-> ml.fails, score |-> ml.score]
                              ELSE [called |-> FALSE]]
            /\ result' = PatternsResult(memory_sequences', sklearn_available, ml)
    /\ UNCHANGED <<script, sklearn_available, monitor_vars, tracker_vars, thread_vars>>

(***************************************************************************)
(* MemoryMonitor.detect_memory_leak                                        *)
(***************************************************************************)
\* deque(maxlen=cap).append(x): a full deque drops its leftmost entry
DequeAppend(d, x, cap) == IF Len(d) >= cap THEN Append(Tail(d), x) ELSE Append(d, x)

\* AvgIncrease with the slope taken relative to the first value of the history
AvgIncreaseOverFirst(data) ==
    LET slope == Slope(data)
    IN IF data[1] = 0
       THEN [kind |-> IF slope[1] > 0 THEN "inf" ELSE IF slope[1] < 0 THEN "-inf" ELSE "nan"]
       ELSE [kind |-> "finite", value |-> RatMul(RatDiv(slope, <<data[1], 1>>), <<100, 1>>)]

\* slope / np.mean(data) * 100 on numpy floats: a zero mean gives inf or nan
AvgIncrease(data) ==
    LET slope == Slope(data)
        mean == Mean(data)
    IN IF mean[1] = 0
       THEN [kind |-> IF slope[1] > 0 THEN "inf" ELSE IF slope[1] < 0 THEN "-inf" ELSE "nan"]
       ELSE [kind |-> "finite", value |-> RatMul(RatDiv(slope, mean), <<100, 1>>)]

PercentGt(x, k) == x.kind = "inf" \/ (x.kind = "finite" /\ RatGt(x.value, <<k, 1>>))

\* LeakOf with its thresholds met by equality too (>= for >)
PercentGe(x, k) == PercentGt(x, k) \/ x = [kind |-> "finite", value |-> <<k, 1>>]

LeakOfInclusive(proc, data) ==
    IF Len(data) >= LeakMinSamples /\ Len(data) > 1 /\ PercentGe(AvgIncrease(data), 5)
    THEN <<[pid |-> proc.pid,
            growth_rate |-> AvgIncrease(data),
            risk_level |-> IF PercentGe(AvgIncrease(data), 10) THEN "HIGH" ELSE "MEDIUM"]>>
    ELSE <<>>

\* the leaks one process adds, given its history after the append
LeakOf(proc, data) ==
    IF Len(data) >= LeakMinSamples /\ Len(data) > 1 /\ PercentGt(AvgIncrease(data), 5)
    THEN <<[pid |-> proc.pid,
            growth_rate |-> AvgIncrease(data),
            risk_level |-> IF PercentGt(AvgIncrease(data), 10) THEN "HIGH" ELSE "MEDIUM"]>>
    ELSE <<>>

\* the loop over process_data: <<history, leaks>> after it
RECURSIVE LeakLoop(_, _, _)
LeakLoop(h, leaks, process_data) ==
    IF process_data = <<>> THEN <<h, leaks>>
    ELSE LET proc == Head(process_data)
             data == DequeAppend(Get(h, proc.pid), proc.rss, HistoryMaxLen)
         IN LeakLoop(Put(h, proc.pid, data), leaks \o LeakOf(proc, data), Tail(process_data))

detect_memory_leak(process_data) ==
    /\ script = "detect_memory_leak"
    /\ arg' = process_data
    /\ now' = now + 1
    /\ LET r == LeakLoop(history, <<>>, process_data)
       IN /\ history' = r[1]
          /\ result' = [leaks |-> r[2]]
    /\ UNCHANGED <<script, detector_vars, process_patterns, tracker_vars, thread_vars>>

(***************************************************************************)
(* MemoryMonitor.detect_anomalies: the update of process_patterns.  Two of *)
(* the four ratios of a fingerprint are kept.                              *)
(***************************************************************************)
calculate_memory_fingerprint(proc) ==
    [memory_ratio |-> IF proc.vms > 0 THEN RatNorm(proc.rss, proc.vms) ELSE <<0, 1>>,
     shared_ratio |-> IF proc.rss > 0 THEN RatNorm(proc.shared, proc.rss) ELSE <<0, 1>>]

\* patterns.append(fingerprint), then pop(0) when more than 20 are held
AppendSample(patterns, fingerprint) ==
    LET s == Append(patterns, fingerprint)
    IN IF Len(s) > SamplesMax THEN Tail(s) ELSE s

RECURSIVE PatternLoop(_, _)
PatternLoop(pp, current_data) ==
    IF current_data = <<>> THEN pp
    ELSE LET proc == Head(current_data)
         IN PatternLoop(Put(pp, proc.pid,
                            AppendSample(Get(pp, proc.pid), calculate_memory_fingerprint(proc))),
                        Tail(current_data))

AnomalyThreshold == 2      \* self.anomaly_threshold = 2.0
AnomalyMinSamples == 5     \* if len(patterns) >= 5

\* z_score > k for z_score = abs(x - mean) / std with std > 0, on the squares
ZScoreGt(x, mean, variance, k) ==
    RatGt(RatMul(RatAdd(x, RatMul(<<-1, 1>>, mean)), RatAdd(x, RatMul(<<-1, 1>>, mean))),
          RatMul(<<k * k, 1>>, variance))

\* the anomaly of one metric: the current value against patterns[:-1]
MetricAnomaly(pid, metric, x, values) ==
    IF values # <<>> /\ RatVariance(values)[1] > 0
       /\ ZScoreGt(x, RatMean(values), RatVariance(values), AnomalyThreshold)
    THEN <<[pid |-> pid, metric |-> metric,
            severity |-> IF ZScoreGt(x, RatMean(values), RatVariance(values), 3)
                         THEN "HIGH" ELSE "MEDIUM"]>>
    ELSE <<>>

MetricValues(patterns, metric) ==
    AsList([i \in 1..(Len(patterns) - 1) |-> patterns[i][metric]])

\* the anomalies of one process, given its samples after the append
AnomaliesOf(pid, patterns) ==
    IF Len(patterns) >= AnomalyMinSamples
    THEN MetricAnomaly(pid, "memory_ratio", Last(patterns).memory_ratio,
                       MetricValues(patterns, "memory_ratio"))
         \o MetricAnomaly(pid, "shared_ratio", Last(patterns).shared_ratio,
                          MetricValues(patterns, "shared_ratio"))
    ELSE <<>>

\* the anomalies that the loop over current_data collects
RECURSIVE AnomalyLoop(_, _)
AnomalyLoop(pp, current_data) ==
    IF current_data = <<>> THEN <<>>
    ELSE AnomaliesOf(Head(current_data).pid,
                     AppendSample(Get(pp, Head(current_data).pid),
                                  calculate_memory_fingerprint(Head(current_data))))
         \o AnomalyLoop(PatternLoop(pp, <<Head(current_data)>>), Tail(current_data))

detect_anomalies(current_data) ==
    /\ script = "detect_anomalies"
    /\ arg' = current_data
    /\ now' = now + 1
    /\ process_patterns' = PatternLoop(process_patterns, current_data)
    /\ result' = [returned |-> "anomalies",
                  anomalies |-> AnomalyLoop(process_patterns, current_data)]
    /\ UNCHANGED <<script, detector_vars, history, tracker_vars, thread_vars>>

(***************************************************************************)
(* ProcessMemoryTracker.calculate_process_dna.  A history entry keeps rss, *)
(* vms, shared and num_threads; the pattern keeps the statistics over      *)
(* these.  A standard deviation is kept as its square.                     *)
(***************************************************************************)
None == [none |-> TRUE]

Column(entries, field) == AsList([i \in 1..Len(entries) |-> entries[i][field]])

\* entry[field] / entry['rss'] for every entry kept
RatioColumn(entries, field) ==
    AsList([i \in 1..Len(entries) |-> RatNorm(entries[i][field], entries[i].rss)])

RatColumn(entries, field) == AsList([i \in 1..Len(entries) |-> <<entries[i][field], 1>>])

RatMax(values) ==
    CHOOSE m \in {values[i] : i \in 1..Len(values)} :
        \A i \in 1..Len(values) : ~RatGt(values[i], m)

calculate_growth_rate(memory_values) ==
    IF Len(memory_values) < 2 THEN <<0, 1>>
    ELSE IF Mean(memory_values)[1] > 0
         THEN RatDiv(Slope(memory_values), Mean(memory_values))
         ELSE <<0, 1>>

\* np.corrcoef(x, y)[0, 1]: the covariance over the root of the product of
\* the variances, nan (0 / 0) when a column is constant; kept as its sign
\* and its square
Corrcoef(x, y) ==
    LET n == Len(x)
        c == n * SeqSum([i \in 1..n |-> x[i] * y[i]]) - SeqSum(x) * SeqSum(y)
        vx == n * SeqSum([i \in 1..n |-> x[i] * x[i]]) - SeqSum(x) * SeqSum(x)
        vy == n * SeqSum([i \in 1..n |-> y[i] * y[i]]) - SeqSum(y) * SeqSum(y)
    IN IF vx = 0 \/ vy = 0 THEN [kind |-> "nan"]
       ELSE [kind |-> "value",
             sign |-> IF c < 0 THEN -1 ELSE IF c > 0 THEN 1 ELSE 0,
             square |-> RatMul(RatNorm(c, vx), RatNorm(c, vy))]

FeatureColumns(features) ==
    <<RatColumn(features, "rss"), RatColumn(features, "vms"),
      RatioColumn(features, "shared"), RatioColumn(features, "data_segment"),
      RatioColumn(features, "stack_segment"), RatColumn(features, "memory_percent"),
      RatColumn(features, "cpu_percent"), RatColumn(features, "num_threads"),
      RatColumn(features, "memory_maps_count")>>

\* a column over its maximum.  The 1e-10 added to the maximum keeps an
\* all-zero column from dividing by zero and is otherwise below what the
\* model resolves.
Normalized(values) ==
    LET top == RatMax(values)
    IN AsList([i \in 1..Len(values) |->
                  IF top[1] = 0 THEN <<0, 1>> ELSE RatDiv(values[i], top)])

\* the standard deviation sqrt(v) of a column of variance v, as p / sqrt(p * q)
RootOf(v) == <<v[1], v[1] * v[2]>>

calculate_pattern_complexity(features) ==
    LET columns == FeatureColumns(features)
        spread(i) == LET normalized_features == Normalized(columns[i])
                         variance == RatVariance(normalized_features)
                     IN RootOf(variance)
    IN NumDivInt(NumSumZ(AsList([i \in 1..Len(columns) |-> spread(i)])), Len(columns))

DnaPattern(features) ==
    [mean_rss |-> Mean(Column(features, "rss")),
     std_rss |-> [sqrt |-> Variance(Column(features, "rss"))],
     mean_vms |-> Mean(Column(features, "vms")),
     std_vms |-> [sqrt |-> Variance(Column(features, "vms"))],
     avg_shared_ratio |-> RatMean(RatioColumn(features, "shared")),
     avg_data_ratio |-> RatMean(RatioColumn(features, "data_segment")),
     avg_stack_ratio |-> RatMean(RatioColumn(features, "stack_segment")),
     memory_variability |-> [sqrt |-> Variance(Column(features, "memory_percent"))],
     cpu_correlation |->
         IF Len(features) > 1
         THEN Corrcoef(Column(features, "rss"), Column(features, "cpu_percent"))
         ELSE [kind |-> "value", sign |-> 0, square |-> <<0, 1>>],
     thread_stability |-> [sqrt |-> Variance(Column(features, "num_threads"))],
     map_count_avg |-> Mean(Column(features, "memory_maps_count")),
     growth_rate |-> calculate_growth_rate(Column(features, "rss")),
     pattern_complexity |-> calculate_pattern_complexity(features)]

\* json.dumps(dna_pattern, sort_keys=True): the items in key order
DnaKeys ==
    <<"avg_data_ratio", "avg_shared_ratio", "avg_stack_ratio", "cpu_correlation",
      "growth_rate", "map_count_avg", "mean_rss", "mean_vms", "memory_variability",
      "pattern_complexity", "std_rss", "std_vms", "thread_stability">>

json_dumps(dna_pattern) ==
    AsList([i \in 1..Len(DnaKeys) |-> <<DnaKeys[i], dna_pattern[DnaKeys[i]]>>])

\* hashlib.md5(...).hexdigest(), taken to be free of collisions
md5(dna_string) == [md5 |-> dna_string]

HasRss(entry) == entry.rss > 0

calculate_process_dna(process_history) ==
    IF Len(process_history) < DnaMinSamples THEN None
    ELSE LET features == SelectSeq(process_history, HasRss)
         IN IF features = <<>> THEN None
            ELSE LET dna_pattern == DnaPattern(features)
                 IN [hash |-> md5(json_dumps(dna_pattern)), pattern |-> dna_pattern]

(***************************************************************************)
(* ProcessMemoryTracker.update_process_dna and one turn of the loop of     *)
(* track_processes.  `db` is what sqlite does: "ok", "execute_fails" (an   *)
(* execute raises, before the cache is written) or "commit_fails" (the     *)
(* commit on leaving the with-block raises, after the cache is written).   *)
(***************************************************************************)
DbOutcomes == {"ok", "execute_fails", "commit_fails"}

\* <<process_dna, db_dna>> after update_process_dna(pid) at the time datetime_now
update_process_dna(pid, histories, dna, rows, db, datetime_now) ==
    LET hist == Get(histories, pid)
        dna_info == calculate_process_dna(hist)
    IN IF Len(hist) < DnaMinSamples \/ dna_info = None \/ db = "execute_fails"
       THEN <<dna, rows>>
       ELSE IF db = "commit_fails"
       THEN <<Put(dna, pid, dna_info), rows>>
       ELSE <<Put(dna, pid, dna_info),
              Put(rows, pid, [dna_hash |-> dna_info.hash, last_updated |-> datetime_now])>>

track_processes(proc_info, db) ==
    /\ script = "track_processes"
    /\ arg' = proc_info
    /\ now' = now + 1
    /\ process_histories' =
           Put(process_histories, proc_info.pid,
               DequeAppend(Get(process_histories, proc_info.pid), proc_info, TrackerMaxLen))
    /\ LET r == IF Len(process_histories'[proc_info.pid]) % DnaEvery = 0
                THEN update_process_dna(proc_info.pid, process_histories', process_dna, db_dna,
                                        db, now')
                ELSE <<process_dna, db_dna>>
       IN /\ process_dna' = r[1]
          /\ db_dna' = r[2]
    /\ result' = [returned |-> "tracked"]
    /\ UNCHANGED <<script, detector_vars, monitor_vars, lock, thread_vars>>

(***************************************************************************)
(* Inputs.                                                                 *)
(***************************************************************************)
Sample(p, s, t, u) == [percent |-> p, swap_percent |-> s, total |-> t, used |-> u]

\* a quiet sample, a sample with a negative metric, a sample of a host
\* reporting no memory at all
MemoryData == {Sample(0, 0, 8, 4), Sample(4, -1, 8, 4), Sample(0, 0, 0, 0)}

Negative(memory_data) == memory_data.percent < 0 \/ memory_data.swap_percent < 0

NoCall == [none |-> TRUE]

\* the threads of SpecThreads: two that run the loop of track_processes, each
\* for the samples of one process, and one that reports
Producers == {"producer_a", "producer_b"}
Threads == Producers \cup {"reader"}

InitObjects ==
    /\ now = 0
    /\ memory_sequences = <<>>
    /\ history = EmptyMap
    /\ process_patterns = EmptyMap
    /\ process_histories = EmptyMap
    /\ process_dna = EmptyMap
    /\ db_dna = EmptyMap
    /\ lock = "free"
    /\ pc = [t \in Threads |-> "idle"]
    /\ local = [t \in Threads |-> None]
    /\ result = NoCall

(***************************************************************************)
(* Spec: the anomaly detector fed up to MaxCalls samples, each of them any *)
(* of MemoryData.                                                          *)
(***************************************************************************)
Init ==
    /\ script = "detect_memory_patterns"
    /\ sklearn_available \in BOOLEAN
    /\ arg = NoCall
    /\ InitObjects

Next ==
    \E memory_data \in MemoryData, ml \in MlOutcomes :
        /\ now < MaxCalls
        /\ detect_memory_patterns(memory_data, ml)

Spec == Init /\ [][Next]_vars

(***************************************************************************)
(* SpecWindows: each history window driven past its capacity by a stream   *)
(* of samples that are all different (a stamp that grows with every        *)
(* sample), for one entity.                                                *)
(***************************************************************************)
InitWindows ==
    /\ script \in {"detect_memory_patterns", "detect_memory_leak", "detect_anomalies",
                   "track_processes"}
    /\ sklearn_available \in (IF script = "detect_memory_patterns" THEN BOOLEAN ELSE {FALSE})
    /\ arg = NoCall
    /\ InitObjects

StreamPatterns ==
    /\ now < GlobalCapacity + Extra
    /\ \E ml \in MlOutcomes : detect_memory_patterns(Sample(0, 0, 8, 4), ml)

StreamLeak ==
    /\ now < HistoryMaxLen + Extra
    /\ detect_memory_leak(<<[pid |-> 1, rss |-> now + 1]>>)

StreamAnomalies ==
    /\ now < SamplesMax + Extra
    /\ detect_anomalies(<<[pid |-> 1, rss |-> now + 1, vms |-> 1, shared |-> 0]>>)

StreamTrack ==
    /\ now < TrackerMaxLen + Extra
    /\ \E db \in DbOutcomes :
           track_processes([pid |-> 1, rss |-> 4, vms |-> 8, shared |-> 1, data_segment |-> 2,
                            stack_segment |-> 1, memory_percent |-> 3, cpu_percent |-> 0,
                            num_threads |-> 2, memory_maps_count |-> 5,
                            timestamp |-> now + 1], db)

NextWindows == StreamPatterns \/ StreamLeak \/ StreamAnomalies \/ StreamTrack

SpecWindows == InitWindows /\ [][NextWindows]_vars

(***************************************************************************)
(* SpecStat: simple_anomaly_detection applied once to a current vector and *)
(* a history of up to MaxHist vectors.                                     *)
(***************************************************************************)
StatHistVectors == {<<0, 0>>, <<4, 0>>, <<0, 1>>, <<4, 1>>}
StatCurVectors == {0, 4, 9} \X {0, 1, 3}
StatHistories == UNION {[1..n -> StatHistVectors] : n \in 0..MaxHist}

InitStat ==
    /\ script = "simple_anomaly_detection"
    /\ sklearn_available = FALSE
    /\ arg \in [current_features : StatCurVectors, historical_features : StatHistories]
    /\ InitObjects

ApplyStat ==
    /\ script = "simple_anomaly_detection"
    /\ result = NoCall
    /\ result' = simple_anomaly_detection(arg.current_features, arg.historical_features)
    /\ UNCHANGED <<script, now, detector_vars, monitor_vars, tracker_vars, thread_vars, arg>>

SpecStat == InitStat /\ [][ApplyStat]_vars

(***************************************************************************)
(* SpecLeak: detect_memory_leak called up to MaxLeakCalls times with one   *)
(* process whose rss starts at one of LeakStarts and changes by one of     *)
(* LeakDeltas from each call to the next, or whose rss runs through        *)
(* GrowingSequence.                                                        *)
(***************************************************************************)
MaxLeakCalls == 10
LeakStarts == {0, 11, 31}
LeakDeltas == {-2, 0, 2}
\* a sequence growing by about 5% a step
GrowingSequence == <<1000, 1050, 1102, 1157, 1215, 1276, 1339, 1406, 1477, 1551>>

InitLeak ==
    /\ script = "detect_memory_leak"
    /\ sklearn_available = FALSE
    /\ arg = NoCall
    /\ InitObjects

\* the rss a process may report next, given its history: a walk by LeakDeltas,
\* or the next value of GrowingSequence while the history is a prefix of it
NextRss(data) ==
    IF data[1] \in LeakStarts THEN {Last(data) + d : d \in LeakDeltas}
    ELSE IF Len(data) < Len(GrowingSequence) /\ data = SubSeq(GrowingSequence, 1, Len(data))
    THEN {GrowingSequence[Len(data) + 1]}
    ELSE {}

FirstLeakCall ==
    /\ now = 0
    /\ \E rss \in LeakStarts \cup {GrowingSequence[1]} :
           detect_memory_leak(<<[pid |-> 1, rss |-> rss]>>)

NextLeakCall ==
    /\ now > 0
    /\ now < MaxLeakCalls
    /\ \E rss \in NextRss(history[1]) : detect_memory_leak(<<[pid |-> 1, rss |-> rss]>>)

NextLeak == FirstLeakCall \/ NextLeakCall

SpecLeak == InitLeak /\ [][NextLeak]_vars

(***************************************************************************)
(* SpecTrends: detect_trends applied once to a window of MinTrendLen ..    *)
(* MaxTrendLen samples whose memory usage is a sinusoid of period 5: the   *)
(* values of 100 * sin(2 * pi * i / 5), to the nearest integer, scaled,    *)
(* shifted in phase and raised by an offset.                               *)
(***************************************************************************)
MinTrendLen == 17
MaxTrendLen == 21
SineTable == <<0, 95, 59, -59, -95>>
SineOffsets == {0, 100, 200, 300, 500}
SineScales == {1, 2}

Sinusoid(scale, offset, phase, n) ==
    [i \in 1..n |-> offset + scale * SineTable[((i - 1 + phase) % 5) + 1]]

SampleSequence(usage) ==
    [k \in 1..Len(usage) |-> [timestamp |-> k, features |-> <<usage[k], 0>>]]

InitTrends ==
    /\ script = "detect_trends"
    /\ sklearn_available = FALSE
    /\ \E scale \in SineScales, offset \in SineOffsets, phase \in 0..4, n \in MinTrendLen..MaxTrendLen :
           arg = [scale |-> scale, offset |-> offset,
                  sequence |-> SampleSequence(Sinusoid(scale, offset, phase, n))]
    /\ InitObjects

ApplyTrends ==
    /\ script = "detect_trends"
    /\ result = NoCall
    /\ result' = [patterns |-> detect_trends(arg.sequence)]
    /\ UNCHANGED <<script, now, detector_vars, monitor_vars, tracker_vars, thread_vars, arg>>

SpecTrends == InitTrends /\ [][ApplyTrends]_vars

(***************************************************************************)
(* MemoryAnomalyDetector.generate_insights.  A message is kept as the      *)
(* record of what its text says: which sentence it is and the number       *)
(* printed in it.                                                          *)
(***************************************************************************)
\* f"{x:.2f}" and f"{x:.1f}" of the rational x: the number of 10^-places nearest to x
FormatFixed(x, places) == (2 * x[1] * 10^places + x[2]) \div (2 * x[2])

StatusInsight(status) ==
    IF status \in {"HIGH_ANOMALY", "MEDIUM_ANOMALY", "LOW_ANOMALY"}
    THEN <<[insight |-> status]>>
    ELSE <<>>

PatternInsight(pattern) ==
    IF pattern.type = "INCREASING_MEMORY_USAGE"
    THEN <<[insight |-> pattern.type, slope |-> FormatFixed(pattern.slope, 2)]>>
    ELSE IF pattern.type = "PERIODIC_PATTERN"
    THEN <<[insight |-> pattern.type, period |-> pattern.period]>>
    ELSE IF pattern.type = "HIGH_VARIABILITY"
    THEN <<[insight |-> pattern.type]>>
    ELSE <<>>

RECURSIVE PatternInsights(_)
PatternInsights(patterns) ==
    IF patterns = <<>> THEN <<>>
    ELSE PatternInsight(Head(patterns)) \o PatternInsights(Tail(patterns))

PredictionInsight(pred) ==
    IF "predicted_memory_usage" \in DOMAIN pred /\ RatGt(pred.predicted_memory_usage, <<90, 1>>)
    THEN <<[insight |-> "PREDICTION", usage |-> FormatFixed(pred.predicted_memory_usage, 1)]>>
    ELSE <<>>

RECURSIVE PredictionInsights(_)
PredictionInsights(predictions) ==
    IF predictions = <<>> THEN <<>>
    ELSE PredictionInsight(Head(predictions)) \o PredictionInsights(Tail(predictions))

\* generate_insights reading every prediction, not the first two
generate_insights_all_predictions(analysis_result) ==
    StatusInsight(analysis_result.status)
        \o PatternInsights(analysis_result.patterns)
        \o PredictionInsights(analysis_result.predictions)

generate_insights(analysis_result) ==
    StatusInsight(analysis_result.status)
        \o PatternInsights(analysis_result.patterns)
        \o PredictionInsights(SubSeq(analysis_result.predictions, 1,
                                     Min(2, Len(analysis_result.predictions))))

(***************************************************************************)
(* SpecInsights: generate_insights applied once to an analysis result with *)
(* any status, any list of up to MaxPatterns patterns and a list of        *)
(* predictions.                                                            *)
(***************************************************************************)
MaxPatterns == 2

InsightStatuses ==
    {"LEARNING", "NORMAL", "LOW_ANOMALY", "MEDIUM_ANOMALY", "HIGH_ANOMALY", "ANOMALY_DETECTED",
     "Insufficient historical data"}

InsightPatterns ==
    {[type |-> "INCREASING_MEMORY_USAGE", slope |-> <<3, 2>>, severity |-> "MEDIUM"],
     [type |-> "DECREASING_MEMORY_USAGE", slope |-> <<-2, 1>>, severity |-> "LOW"],
     [type |-> "PERIODIC_PATTERN", period |-> 5, strength |-> 40],
     [type |-> "HIGH_VARIABILITY", features |-> <<0>>]}

Prediction(time_ahead, usage) ==
    [time_ahead |-> time_ahead, predicted_memory_usage |-> <<usage, 1>>, confidence |-> "MEDIUM"]

InsightPredictions ==
    {<<>>,
     <<Prediction(30, 50), Prediction(60, 50), Prediction(90, 50)>>,
     <<Prediction(30, 95), Prediction(60, 95), Prediction(90, 95)>>,
     <<Prediction(30, 89), Prediction(60, 90), Prediction(90, 91)>>,
     <<[feature_index |-> 0, trend_slope |-> <<1, 2>>, prediction_horizon |-> "5_minutes",
        confidence |-> "MEDIUM"]>>}

InsightMethods == {"statistical", "machine_learning", "statistical_fallback"}

PatternLists == UNION {[1..n -> InsightPatterns] : n \in 0..MaxPatterns}

InitInsights ==
    /\ script = "generate_insights"
    /\ sklearn_available = FALSE
    /\ arg \in [status : InsightStatuses, anomaly_score : {NumZero, Rat(7, 2)},
                patterns : PatternLists, predictions : InsightPredictions,
                method : InsightMethods]
    /\ InitObjects

ApplyInsights ==
    /\ script = "generate_insights"
    /\ result = NoCall
    /\ result' = [insights |-> generate_insights(arg)]
    /\ UNCHANGED <<script, now, detector_vars, monitor_vars, tracker_vars, thread_vars, arg>>

SpecInsights == InitInsights /\ [][ApplyInsights]_vars

(***************************************************************************)
(* SpecThreads: ProcessMemoryTracker used by three threads.  Two producers *)
(* run the body of the loop of track_processes, producer_a for the samples *)
(* of process 1 and producer_b for those of process 2; a reader runs       *)
(* generate_tracking_report once.  A step is what a thread does between    *)
(* two points where another thread may run: taking the lock, the body of   *)
(* a `with self.lock:` block up to the release, or code outside a block.   *)
(***************************************************************************)
MaxAppendsA == 10
MaxAppendsB == 2
TopProcesses == 10        \* top_processes[:10]
RecentHistory == 10       \* list(self.process_histories[pid])[-10:]

EntityOf(t) == IF t = "producer_a" THEN 1 ELSE 2
MaxAppends(t) == IF t = "producer_a" THEN MaxAppendsA ELSE MaxAppendsB

ThreadSample(pid, stamp) ==
    [pid |-> pid, rss |-> 4, vms |-> 8, shared |-> 1, data_segment |-> 2, stack_segment |-> 1,
     memory_percent |-> 3, cpu_percent |-> 0, num_threads |-> 2, memory_maps_count |-> 5,
     timestamp |-> stamp]

\* the label after each `with self.lock:`
AfterLock ==
    [with_lock |-> "append", dna_with_lock |-> "dna_copy",
     summary_with_lock |-> "summary_copy", anomalies_with_lock |-> "anomalies_copy"]

Goto(t, label) == pc' = [pc EXCEPT ![t] = label]

\* `with self.lock:` entered: the thread waits here while another holds the lock
Acquire(t) ==
    /\ script = "threads"
    /\ pc[t] \in DOMAIN AfterLock
    /\ lock = "free"
    /\ lock' = t
    /\ Goto(t, AfterLock[pc[t]])
    /\ UNCHANGED <<script, now, detector_vars, monitor_vars, process_histories, process_dna,
                   db_dna, local, arg, result>>

\* proc_info = self.get_detailed_process_info(proc)
NextSample(t) ==
    /\ script = "threads"
    /\ t \in Producers
    /\ pc[t] = "idle"
    /\ Len(Get(process_histories, EntityOf(t))) < MaxAppends(t)
    /\ local' = [local EXCEPT ![t] =
                    [proc_info |-> ThreadSample(EntityOf(t),
                                                Len(Get(process_histories, EntityOf(t))) + 1)]]
    /\ Goto(t, "with_lock")
    /\ UNCHANGED <<script, now, detector_vars, monitor_vars, tracker_vars, arg, result>>

\* self.process_histories[pid].append(proc_info), and the lock released
AppendLocked(t) ==
    /\ script = "threads"
    /\ pc[t] = "append"
    /\ process_histories' =
           Put(process_histories, local[t].proc_info.pid,
               DequeAppend(Get(process_histories, local[t].proc_info.pid), local[t].proc_info,
                           TrackerMaxLen))
    /\ lock' = "free"
    /\ now' = now + 1
    /\ Goto(t, "check")
    /\ UNCHANGED <<script, detector_vars, monitor_vars, process_dna, db_dna, local, arg, result>>

\* if len(self.process_histories[pid]) % 10 == 0
CheckDna(t) ==
    /\ script = "threads"
    /\ pc[t] = "check"
    /\ IF Len(process_histories[local[t].proc_info.pid]) % DnaEvery = 0
       THEN Goto(t, "dna_with_lock")
       ELSE Goto(t, "idle")
    /\ UNCHANGED <<script, now, detector_vars, monitor_vars, tracker_vars, local, arg, result>>

\* update_process_dna: history = list(self.process_histories[pid]), and the lock released
DnaCopy(t) ==
    /\ script = "threads"
    /\ pc[t] = "dna_copy"
    /\ local' = [local EXCEPT ![t] =
                    [proc_info |-> local[t].proc_info,
                     history |-> Get(process_histories, local[t].proc_info.pid)]]
    /\ lock' = "free"
    /\ Goto(t, "dna_store")
    /\ UNCHANGED <<script, now, detector_vars, monitor_vars, process_histories, process_dna,
                   db_dna, arg, result>>

\* update_process_dna: the rest of it, on the copy
DnaStore(t, db) ==
    /\ script = "threads"
    /\ pc[t] = "dna_store"
    /\ LET pid == local[t].proc_info.pid
           r == update_process_dna(pid, Put(EmptyMap, pid, local[t].history), process_dna,
                                   db_dna, db, now)
       IN /\ process_dna' = r[1]
          /\ db_dna' = r[2]
    /\ local' = [local EXCEPT ![t] = None]
    /\ Goto(t, "idle")
    /\ UNCHANGED <<script, now, detector_vars, monitor_vars, process_histories, lock, arg, result>>

\* generate_tracking_report: the iterator of self.process_histories.items() made
ReportStart ==
    /\ script = "threads"
    /\ pc["reader"] = "idle"
    /\ local' = [local EXCEPT !["reader"] =
                    [size |-> Cardinality(DOMAIN process_histories),
                     todo |-> DOMAIN process_histories,
                     top_processes |-> <<>>]]
    /\ Goto("reader", "iterate")
    /\ UNCHANGED <<script, now, detector_vars, monitor_vars, tracker_vars, arg, result>>

\* top_processes.sort(key=lambda x: x[2], reverse=True): a stable sort
RECURSIVE InsertByRss(_, _)
InsertByRss(sorted, x) ==
    IF sorted = <<>> THEN <<x>>
    ELSE IF Head(sorted)[2] >= x[2] THEN <<Head(sorted)>> \o InsertByRss(Tail(sorted), x)
    ELSE <<x>> \o sorted

RECURSIVE SortByRss(_)
SortByRss(top) ==
    IF top = <<>> THEN <<>> ELSE InsertByRss(SortByRss(Front(top)), Last(top))

\* one turn of `for pid, history in self.process_histories.items()`: the
\* iterator raises RuntimeError when the dictionary has changed its size
\* (the keys are visited in the order of the pids)
ReportNext ==
    /\ script = "threads"
    /\ pc["reader"] = "iterate"
    /\ IF Cardinality(DOMAIN process_histories) # local["reader"].size
       THEN /\ Goto("reader", "RuntimeError")
            /\ UNCHANGED local
       ELSE IF local["reader"].todo = {}
       THEN /\ Goto("reader", "summaries")
            /\ local' = [local EXCEPT !["reader"] =
                            [queue |-> LET top == SortByRss(local["reader"].top_processes)
                                       IN [k \in 1..Min(TopProcesses, Len(top)) |-> top[k][1]]]]
       ELSE LET pid == SetMin(local["reader"].todo)
                history_of_pid == process_histories[pid]
            IN /\ Goto("reader", "iterate")
               /\ local' = [local EXCEPT !["reader"] =
                               [size |-> local["reader"].size,
                                todo |-> local["reader"].todo \ {pid},
                                top_processes |->
                                    IF history_of_pid # <<>>
                                    THEN Append(local["reader"].top_processes,
                                                <<pid, Last(history_of_pid).rss>>)
                                    ELSE local["reader"].top_processes]]
    /\ UNCHANGED <<script, now, detector_vars, monitor_vars, tracker_vars, arg, result>>

\* get_process_summary(pid) of the next of the top processes, up to its lock
SummaryStart ==
    /\ script = "threads"
    /\ pc["reader"] = "summaries"
    /\ IF local["reader"].queue = <<>>
       THEN Goto("reader", "done")
       ELSE Goto("reader", "summary_with_lock")
    /\ UNCHANGED <<script, now, detector_vars, monitor_vars, tracker_vars, local, arg, result>>

\* get_process_summary: history = list(self.process_histories[pid]), and the lock released
SummaryCopy ==
    /\ script = "threads"
    /\ pc["reader"] = "summary_copy"
    /\ local' = [local EXCEPT !["reader"] =
                    [queue |-> local["reader"].queue,
                     history |-> Get(process_histories, Head(local["reader"].queue))]]
    /\ lock' = "free"
    /\ Goto("reader", "summary_made")
    /\ UNCHANGED <<script, now, detector_vars, monitor_vars, process_histories, process_dna,
                   db_dna, arg, result>>

\* get_process_summary: the summary built from the copy; if pid in self.process_dna
SummaryMade ==
    /\ script = "threads"
    /\ pc["reader"] = "summary_made"
    /\ IF Head(local["reader"].queue) \in DOMAIN process_dna
       THEN /\ Goto("reader", "anomalies_with_lock")
            /\ local' = [local EXCEPT !["reader"] = [queue |-> local["reader"].queue]]
       ELSE /\ Goto("reader", "summaries")
            /\ local' = [local EXCEPT !["reader"] = [queue |-> Tail(local["reader"].queue)]]
    /\ UNCHANGED <<script, now, detector_vars, monitor_vars, tracker_vars, arg, result>>

\* detect_memory_anomalies: recent_history = list(self.process_histories[pid])[-10:]
AnomaliesCopy ==
    /\ script = "threads"
    /\ pc["reader"] = "anomalies_copy"
    /\ LET history_of_pid == Get(process_histories, Head(local["reader"].queue))
           from == IF Len(history_of_pid) > RecentHistory
                   THEN Len(history_of_pid) - RecentHistory ELSE 0
       IN local' = [local EXCEPT !["reader"] =
                       [queue |-> local["reader"].queue,
                        recent_history |-> SubSeq(history_of_pid, from + 1, Len(history_of_pid))]]
    /\ lock' = "free"
    /\ Goto("reader", "anomalies_made")
    /\ UNCHANGED <<script, now, detector_vars, monitor_vars, process_histories, process_dna,
                   db_dna, arg, result>>

\* detect_memory_anomalies returns; report['summary'].append(summary)
AnomaliesMade ==
    /\ script = "threads"
    /\ pc["reader"] = "anomalies_made"
    /\ local' = [local EXCEPT !["reader"] = [queue |-> Tail(local["reader"].queue)]]
    /\ Goto("reader", "summaries")
    /\ UNCHANGED <<script, now, detector_vars, monitor_vars, tracker_vars, arg, result>>

InitThreads ==
    /\ script = "threads"
    /\ sklearn_available = FALSE
    /\ arg = NoCall
    /\ InitObjects

ProducerStep(t) ==
    \/ NextSample(t)
    \/ AppendLocked(t)
    \/ CheckDna(t)
    \/ DnaCopy(t)
    \/ \E db \in DbOutcomes : DnaStore(t, db)

ReaderStep ==
    \/ ReportStart
    \/ ReportNext
    \/ SummaryStart
    \/ SummaryCopy
    \/ SummaryMade
    \/ AnomaliesCopy
    \/ AnomaliesMade

NextThreads ==
    \/ \E t \in Threads : Acquire(t)
    \/ \E t \in Producers : ProducerStep(t)
    \/ ReaderStep

SpecThreads == InitThreads /\ [][NextThreads]_vars

(***************************************************************************)
(* SpecTick: ticks over several processes.  A tick of the tracker is one   *)
(* turn of `while self.tracking_active` in track_processes; a tick of the  *)
(* monitor is one turn of `while True` in main.  The processes are what    *)
(* psutil.process_iter yields: info['memory_info'] is None for a process   *)
(* whose memory the caller may not read.  A behaviour starts after         *)
(* WarmTicks ticks over process 1 alone and goes on for MaxTicks ticks     *)
(* over process 1, process 2 or both, any of them unreadable.              *)
(***************************************************************************)
WarmTicks == 9
MaxTicks == 3

\* the processes of a tick: process 1, process 2 or both
TickPids == {{1}, {2}, {1, 2}}

\* a process as process_iter yields it, unreadable if among `denied`: the
\* samples of the monitor grow with the time, those of the tracker are stamped
TickProcess(pid, denied, stamp) ==
    [pid |-> pid,
     memory_info |-> IF pid \in denied THEN None
                     ELSE [rss |-> IF script = "main" THEN 10 * pid + stamp ELSE 4,
                           vms |-> 8, shared |-> 1]]

TickProcesses(pids, denied, stamp) ==
    (IF 1 \in pids THEN <<TickProcess(1, denied, stamp)>> ELSE <<>>)
    \o (IF 2 \in pids THEN <<TickProcess(2, denied, stamp)>> ELSE <<>>)

Raised(value) == "raised" \in DOMAIN value

\* memory_info.rss raises AttributeError when memory_info is None, and
\* AttributeError is not among the exceptions caught
get_detailed_process_info(proc, stamp) ==
    IF proc.memory_info = None THEN [raised |-> "AttributeError"]
    ELSE [pid |-> proc.pid, rss |-> proc.memory_info.rss, vms |-> proc.memory_info.vms,
          shared |-> proc.memory_info.shared, data_segment |-> 2, stack_segment |-> 1,
          memory_percent |-> 3, cpu_percent |-> 0, num_threads |-> 2, memory_maps_count |-> 5,
          timestamp |-> stamp]

\* the tracker with the history h of the processes and <<process_dna, db_dna>>
TrackerOf(h, r, batch_data) ==
    [process_histories |-> h, process_dna |-> r[1], db_dna |-> r[2], batch_data |-> batch_data,
     raised |-> FALSE]

\* if len(self.process_histories[pid]) % 10 == 0: self.update_process_dna(pid, ...)
TrackDna(tracker, h, pid, db, stamp) ==
    TrackerOf(h,
              IF Len(h[pid]) % DnaEvery = 0
              THEN update_process_dna(pid, h, tracker.process_dna, tracker.db_dna, db, stamp)
              ELSE <<tracker.process_dna, tracker.db_dna>>,
              Append(tracker.batch_data, pid))

\* TrackOne with the window of the sampled process put into an empty map
TrackOneAlone(tracker, proc_info, db) ==
    TrackDna(tracker,
             Put(EmptyMap, proc_info.pid,
                 DequeAppend(Get(tracker.process_histories, proc_info.pid), proc_info,
                             TrackerMaxLen)),
             proc_info.pid, db, proc_info.timestamp)

\* the body of `for proc in processes` for a proc_info that is not None
TrackOne(tracker, proc_info, db) ==
    TrackDna(tracker,
             Put(tracker.process_histories, proc_info.pid,
                 DequeAppend(Get(tracker.process_histories, proc_info.pid), proc_info,
                             TrackerMaxLen)),
             proc_info.pid, db, proc_info.timestamp)

\* `for proc in processes` of track_processes: it ends when a call raises
RECURSIVE TrackLoop(_, _, _, _)
RECURSIVE TrackStep(_, _, _, _, _)
TrackStep(tracker, proc_info, rest, db, stamp) ==
    IF Raised(proc_info) THEN [tracker EXCEPT !.raised = TRUE]
    ELSE TrackLoop(TrackOne(tracker, proc_info, db), rest, db, stamp)

TrackLoop(tracker, processes, db, stamp) ==
    IF processes = <<>> THEN tracker
    ELSE TrackStep(tracker, get_detailed_process_info(Head(processes), stamp),
                   Tail(processes), db, stamp)

\* the end of a turn: the batch is saved when the loop over the processes
\* has come to its end, `except Exception` takes the rest
TrackEnd(tracker) ==
    /\ process_histories' = tracker.process_histories
    /\ process_dna' = tracker.process_dna
    /\ db_dna' = tracker.db_dna
    /\ result' = IF tracker.raised
                 THEN [returned |-> "Error in tracking", saved |-> <<>>]
                 ELSE [returned |-> "tracked", saved |-> tracker.batch_data]

\* one turn of the loop of track_processes
TrackTick(processes, db) ==
    /\ script = "track_processes_tick"
    /\ arg' = processes
    /\ now' = now + 1
    /\ TrackEnd(TrackLoop([process_histories |-> process_histories,
                           process_dna |-> process_dna, db_dna |-> db_dna,
                           batch_data |-> <<>>, raised |-> FALSE],
                          processes, db, now'))
    /\ UNCHANGED <<script, detector_vars, monitor_vars, lock, thread_vars>>

\* sorted(processes, key=lambda x: x['rss'], reverse=True): a stable sort
RECURSIVE InsertProcess(_, _)
InsertProcess(sorted, x) ==
    IF sorted = <<>> THEN <<x>>
    ELSE IF Head(sorted).rss >= x.rss THEN <<Head(sorted)>> \o InsertProcess(Tail(sorted), x)
    ELSE <<x>> \o sorted

\* get_process_memory: mem_info.rss raises AttributeError when mem_info is
\* None, and only NoSuchProcess and AccessDenied are caught
RECURSIVE get_process_memory(_)
get_process_memory(processes) ==
    IF processes = <<>> THEN [raised |-> FALSE, processes |-> <<>>]
    ELSE LET proc == Last(processes)
             before == get_process_memory(Front(processes))
         IN IF before.raised \/ proc.memory_info = None
            THEN [raised |-> TRUE, processes |-> <<>>]
            ELSE [raised |-> FALSE,
                  processes |-> InsertProcess(before.processes,
                                              [pid |-> proc.pid, rss |-> proc.memory_info.rss,
                                               vms |-> proc.memory_info.vms,
                                               shared |-> proc.memory_info.shared])]

\* one turn of the loop of main: get_process_memory, detect_memory_leak and
\* detect_anomalies, `except Exception` around all of them
main(processes) ==
    /\ script = "main"
    /\ arg' = processes
    /\ now' = now + 1
    /\ LET process_data == get_process_memory(processes)
       IN IF process_data.raised
          THEN /\ result' = [returned |-> "Error"]
               /\ UNCHANGED monitor_vars
          ELSE LET r == LeakLoop(history, <<>>, process_data.processes)
               IN /\ history' = r[1]
                  /\ process_patterns' = PatternLoop(process_patterns, process_data.processes)
                  /\ result' = [returned |-> "report", leaks |-> r[2]]
    /\ UNCHANGED <<script, detector_vars, tracker_vars, thread_vars>>

\* the tracker after n ticks over process 1 alone, readable, the database
\* working (`before` is the value of the tracker after n - 1 ticks)
RECURSIVE WarmTracker(_)
WarmTracker(n) ==
    IF n = 0
    THEN [process_histories |-> EmptyMap, process_dna |-> EmptyMap, db_dna |-> EmptyMap,
          batch_data |-> <<>>, raised |-> FALSE]
    ELSE CHOOSE tracker \in {TrackLoop([before EXCEPT !.batch_data = <<>>],
                                       TickProcesses({1}, {}, n), "ok", n) :
                                 before \in {WarmTracker(n - 1)}} : TRUE

\* <<history, process_patterns>> of the monitor after n such ticks
RECURSIVE WarmMonitor(_)
WarmMonitor(n) ==
    IF n = 0 THEN <<EmptyMap, EmptyMap>>
    ELSE CHOOSE monitor \in
             {<<LeakLoop(before[1], <<>>,
                         get_process_memory(TickProcesses({1}, {}, n)).processes)[1],
                PatternLoop(before[2],
                            get_process_memory(TickProcesses({1}, {}, n)).processes)>> :
                 before \in {WarmMonitor(n - 1)}} : TRUE

\* the tracker or the monitor after WarmTicks ticks over process 1 alone
InitTick ==
    /\ script \in {"track_processes_tick", "main"}
    /\ sklearn_available = FALSE
    /\ arg = NoCall
    /\ now = WarmTicks
    /\ memory_sequences = <<>>
    /\ history = (IF script = "main" THEN WarmMonitor(WarmTicks)[1] ELSE EmptyMap)
    /\ process_patterns = (IF script = "main" THEN WarmMonitor(WarmTicks)[2] ELSE EmptyMap)
    /\ process_histories =
           (IF script = "main" THEN EmptyMap ELSE WarmTracker(WarmTicks).process_histories)
    /\ process_dna = (IF script = "main" THEN EmptyMap ELSE WarmTracker(WarmTicks).process_dna)
    /\ db_dna = (IF script = "main" THEN EmptyMap ELSE WarmTracker(WarmTicks).db_dna)
    /\ lock = "free"
    /\ pc = [t \in Threads |-> "idle"]
    /\ local = [t \in Threads |-> None]
    /\ result = NoCall

\* any of the ticks, MaxTicks of them
TickInputs(pids, denied) == now < WarmTicks + MaxTicks

TrackerTick ==
    \E pids \in TickPids, db \in DbOutcomes :
        \E denied \in SUBSET pids :
            /\ TickInputs(pids, denied)
            /\ TrackTick(TickProcesses(pids, denied, now + 1), db)

MonitorTick ==
    \E pids \in TickPids :
        \E denied \in SUBSET pids :
            /\ TickInputs(pids, denied)
            /\ main(TickProcesses(pids, denied, now + 1))

NextTick == TrackerTick \/ MonitorTick

SpecTick == InitTick /\ [][NextTick]_vars

(***************************************************************************)
(* SpecFeatures: extract_features with all of its eight features, on one   *)
(* sample.  The figures of psutil are integers and `/` on them raises      *)
(* ZeroDivisionError for a zero divisor.  A feature is a rational <<n, d>>;*)
(* the standard deviation of the percentages is kept as its square.        *)
(***************************************************************************)
FeatureRaises(memory_data) ==
    LET sys_mem == memory_data.system.physical
    IN \/ sys_mem.total = 0                       \* available / total
       \/ sys_mem.total - sys_mem.used = 0        \* available / (total - used)

ProcessColumn(processes, field) == [k \in 1..Len(processes) |-> processes[k][field]]

\* the four features of a list of processes that is not empty
ProcessFeatures(processes, total) ==
    <<<<Len(processes), 1>>,
      RatNorm(SeqSum(ProcessColumn(processes, "rss")), total),
      <<SetMax({processes[k].percent : k \in 1..Len(processes)}), 1>>,
      Variance(ProcessColumn(processes, "percent"))>>

\* max(0, min(1, fragmentation))
Clamp01(x) == IF RatGt(x, <<1, 1>>) THEN <<1, 1>> ELSE IF x[1] < 0 THEN <<0, 1>> ELSE x

\* the array extract_features returns, for a sample on which it does not raise
FeatureVector(memory_data) ==
    LET sys_mem == memory_data.system.physical
    IN <<<<sys_mem.percent, 1>>,
         RatNorm(sys_mem.available, sys_mem.total),
         <<memory_data.system.swap.percent, 1>>>>
       \o (IF memory_data.processes # <<>>
           THEN ProcessFeatures(memory_data.processes, sys_mem.total)
           ELSE <<<<0, 1>>, <<0, 1>>, <<0, 1>>, <<0, 1>>>>)
       \o (IF sys_mem.total > 0
           THEN <<Clamp01(RatAdd(<<1, 1>>,
                                 RatNorm(-sys_mem.available, sys_mem.total - sys_mem.used)))>>
           ELSE <<<<0, 1>>>>)

\* the well-formed samples: used and available within total, percentages
\* that are not negative, up to two processes
FeatureTotals == {0, 4, 8}
FeatureProcessLists ==
    {<<>>, <<[rss |-> 2, percent |-> 25]>>,
     <<[rss |-> 2, percent |-> 25], [rss |-> 4, percent |-> 50]>>}

FeatureSample(total, used, available, percent, swap_percent, processes) ==
    [system |-> [physical |-> [total |-> total, used |-> used, available |-> available,
                               percent |-> percent],
                 swap |-> [percent |-> swap_percent]],
     processes |-> processes]

InitFeatures ==
    /\ script = "extract_features"
    /\ sklearn_available = FALSE
    /\ \E total \in FeatureTotals, percent \in {0, 50}, swap_percent \in {0, 10},
          processes \in FeatureProcessLists :
           \E used \in {0, total \div 2, total}, available \in {0, total \div 2, total} :
               arg = FeatureSample(total, used, available, percent, swap_percent, processes)
    /\ InitObjects

ApplyFeatures ==
    /\ script = "extract_features"
    /\ result = NoCall
    /\ result' = IF FeatureRaises(arg) THEN [raised |-> "ZeroDivisionError"]
                 ELSE [features |-> FeatureVector(arg)]
    /\ now' = now + 1
    /\ UNCHANGED <<script, detector_vars, monitor_vars, tracker_vars, thread_vars, arg>>

SpecFeatures == InitFeatures /\ [][ApplyFeatures]_vars

(***************************************************************************)
(* SpecPatterns: the detector fed a stream of samples whose memory usage   *)
(* rises by 2 a sample (for MaxRampCalls samples), or swings with period 5 *)
(* around 10; a stream goes on as it began.                                *)
(***************************************************************************)
MaxPatternCalls == 24
MaxRampCalls == 14
WaveTable == <<10, 20, 16, 4, 0>>

\* the memory usage of the next sample
NextUsage ==
    IF memory_sequences = <<>> THEN {2, WaveTable[1]}
    ELSE IF memory_sequences[1].features[1] = 2
    THEN IF now < MaxRampCalls THEN {2 * (now + 1)} ELSE {}
    ELSE {WaveTable[(now % 5) + 1]}

InitPatterns ==
    /\ script = "detect_memory_patterns"
    /\ sklearn_available \in BOOLEAN
    /\ arg = NoCall
    /\ InitObjects

NextPatterns ==
    \E percent \in NextUsage, ml \in MlOutcomes :
        /\ now < MaxPatternCalls
        /\ detect_memory_patterns(Sample(percent, 0, 8, 4), ml)

SpecPatterns == InitPatterns /\ [][NextPatterns]_vars

(***************************************************************************)
(* SpecSlope: detect_trends applied once to a window of up to MaxSlopeLen  *)
(* samples whose memory usage changes by the same step from sample to      *)
(* sample, but for the last sample, which is off the line by a bump.       *)
(***************************************************************************)
MaxSlopeLen == 12
SlopeSteps == {-6, -5, -2, -1, 0, 1, 2, 5, 6}
SlopeBumps == {-3, 0, 3}

Ramp(step, bump, n) ==
    [i \in 1..n |-> 100 + step * (i - 1) + (IF i = n THEN bump ELSE 0)]

InitSlope ==
    /\ script = "detect_trends"
    /\ sklearn_available = FALSE
    /\ \E step \in SlopeSteps, bump \in SlopeBumps, n \in (TrendMinSamples - 1)..MaxSlopeLen :
           arg = [step |-> step, bump |-> bump,
                  sequence |-> SampleSequence(Ramp(step, bump, n))]
    /\ InitObjects

SpecSlope == InitSlope /\ [][ApplyTrends]_vars

(***************************************************************************)
(* SpecPeriod: detect_trends applied once to a window of PeriodSamples ..  *)
(* MaxSpikeLen samples whose memory usage is at a base level but for up to *)
(* three samples, which are higher by a spike.                             *)
(***************************************************************************)
MaxSpikeLen == 21
SpikeBases == {0, 10}
SpikeHeights == {30, 90}

\* the usage with the spikes a, b and c at the places p1, p2 and p3
Spikes(base, p1, a, p2, b, p3, c, n) ==
    [i \in 1..n |-> base + (IF i = p1 THEN a ELSE 0)
                         + (IF i = p2 /\ p2 # p1 THEN b ELSE 0)
                         + (IF i = p3 /\ p3 # p2 /\ p3 # p1 THEN c ELSE 0)]

InitPeriod ==
    /\ script = "detect_trends"
    /\ sklearn_available = FALSE
    /\ \E n \in PeriodSamples..MaxSpikeLen, base \in SpikeBases, p1 \in 1..2 :
       \E p2 \in p1..n, p3 \in p1..n, a \in SpikeHeights, b \in SpikeHeights, c \in SpikeHeights :
           /\ p2 <= p3
           /\ arg = [base |-> base,
                     sequence |-> SampleSequence(Spikes(base, p1, a, p2, b, p3, c, n))]
    /\ InitObjects

SpecPeriod == InitPeriod /\ [][ApplyTrends]_vars

(***************************************************************************)
(* Floating point.  np.mean and np.std compute in binary floating point:   *)
(* every sum, difference, product, quotient and square root is rounded to  *)
(* the nearest representable number, ties to even.  A float is <<m, e>>,   *)
(* the number m * 2^e, with FloatBits significant bits (binary64 has 53):  *)
(* 2^(FloatBits-1) <= |m| < 2^FloatBits, or <<0, 0>> for zero.             *)
(***************************************************************************)
FloatBits == 4
MaxExp == 10
MaxFloatHist == 7

FlZero == <<0, 0>>

\* the exponent e of the float nearest below a / d: 2^(FloatBits-1) <= a / (d * 2^e) < 2^FloatBits
FlExponent(a, d) ==
    CHOOSE x \in -MaxExp..MaxExp :
        IF x < 0
        THEN 2^(FloatBits - 1) * d <= a * 2^(-x) /\ a * 2^(-x) < 2^FloatBits * d
        ELSE 2^(FloatBits - 1) * d * 2^x <= a /\ a < 2^FloatBits * d * 2^x

\* q, or q + 1 when the remainder r of the division by den is above one half, or
\* is one half and q is odd
FlNearest(q, r, den) == IF 2 * r > den \/ (2 * r = den /\ q % 2 = 1) THEN q + 1 ELSE q

\* the float of sign s for the significand m at exponent e, m <= 2^FloatBits
FlPack(s, m, e) == IF m = 2^FloatBits THEN <<s * 2^(FloatBits - 1), e + 1>> ELSE <<s * m, e>>

\* the float nearest to n / d, for d > 0
FlRound(n, d) ==
    IF n = 0 THEN FlZero
    ELSE LET e == FlExponent(Abs(n), d)
             num == IF e < 0 THEN Abs(n) * 2^(-e) ELSE Abs(n)
             den == IF e > 0 THEN d * 2^e ELSE d
         IN FlPack(IF n < 0 THEN -1 ELSE 1, FlNearest(num \div den, num % den, den), e)

\* the float nearest to n * 2^e
FlOfScaled(n, e) == FlRound(IF e >= 0 THEN n * 2^e ELSE n, IF e >= 0 THEN 1 ELSE 2^(-e))

FlAdd(x, y) ==
    LET e == Min(x[2], y[2])
    IN FlOfScaled(x[1] * 2^(x[2] - e) + y[1] * 2^(y[2] - e), e)

FlSub(x, y) == FlAdd(x, <<-y[1], y[2]>>)

FlMul(x, y) == FlOfScaled(x[1] * y[1], x[2] + y[2])

FlAbs(x) == <<Abs(x[1]), x[2]>>

\* x / y for y # 0
FlDiv(x, y) ==
    LET t == x[2] - y[2]
    IN FlRound((IF y[1] < 0 THEN -x[1] ELSE x[1]) * (IF t >= 0 THEN 2^t ELSE 1),
               Abs(y[1]) * (IF t >= 0 THEN 1 ELSE 2^(-t)))

\* x / k for an integer k > 0 that is a float itself
FlDivInt(x, k) ==
    FlRound(IF x[2] >= 0 THEN x[1] * 2^x[2] ELSE x[1], IF x[2] >= 0 THEN k ELSE k * 2^(-x[2]))

\* the largest c with c * c <= N, for 2^(2 * FloatBits - 2) <= N < 2^(2 * FloatBits)
FlRootBelow(N) ==
    CHOOSE c \in 2^(FloatBits - 1)..(2^FloatBits - 1) : c * c <= N /\ N < (c + 1) * (c + 1)

\* sqrt(x) for x >= 0
FlSqrt(x) ==
    IF x = FlZero THEN FlZero
    ELSE LET t == IF (x[2] - (FloatBits - 1)) % 2 = 0 THEN FloatBits - 1 ELSE FloatBits
             k == FlRootBelow(x[1] * 2^t)
         IN FlPack(1, IF x[1] * 2^t > k * k + k THEN k + 1 ELSE k, (x[2] - t) \div 2)

\* x > y
FlGt(x, y) ==
    LET e == Min(x[2], y[2])
    IN x[1] * 2^(x[2] - e) > y[1] * 2^(y[2] - e)

FlMax(zs) == CHOOSE z \in {zs[i] : i \in 1..Len(zs)} : \A i \in 1..Len(zs) : ~FlGt(zs[i], z)

\* a reduction along axis 0 adds the rows one after the other
RECURSIVE FlSumTo(_, _)
FlSumTo(col, k) == IF k = 1 THEN col[1] ELSE FlAdd(FlSumTo(col, k - 1), col[k])

FlSum(col) == FlSumTo(col, Len(col))

\* np.mean: the sum divided by the count
FlMean(col) == FlDivInt(FlSum(col), Len(col))

\* np.std: the root of the mean of the squared differences from np.mean
FlStd(col) ==
    LET mean == FlMean(col)
        x == AsList([k \in 1..Len(col) |-> FlSub(col[k], mean)])
        xx == AsList([k \in 1..Len(col) |-> FlMul(x[k], x[k])])
    IN FlSqrt(FlDivInt(FlSum(xx), Len(col)))

FlColumn(hist, i) == AsList([k \in 1..Len(hist) |-> hist[k][i]])

\* the features with std > 0
FlScored(std_features) == {i \in 1..Len(std_features) : FlGt(std_features[i], FlZero)}

\* the z-scores of the features with std > 0, in the order of the features
RECURSIVE FlAnomalyScoresFrom(_, _, _, _)
FlAnomalyScoresFrom(current, mean_features, std_features, i) ==
    IF i > Len(current) THEN <<>>
    ELSE (IF i \in FlScored(std_features)
          THEN <<FlDiv(FlAbs(FlSub(current[i], mean_features[i])), std_features[i])>>
          ELSE <<>>) \o FlAnomalyScoresFrom(current, mean_features, std_features, i + 1)

FlAnomalyScores(current, hist) ==
    LET mean_features == AsList([i \in 1..Len(current) |-> FlMean(FlColumn(hist, i))])
        std_features == AsList([i \in 1..Len(current) |-> FlStd(FlColumn(hist, i))])
    IN FlAnomalyScoresFrom(current, mean_features, std_features, 1)

FlLabel(avg_anomaly_score, max_anomaly_score) ==
    IF FlGt(max_anomaly_score, <<3 * 2^(FloatBits - 2), 2 - FloatBits>>)
    THEN [score |-> max_anomaly_score, status |-> "HIGH_ANOMALY"]
    ELSE IF FlGt(max_anomaly_score, <<2^(FloatBits - 1), 2 - FloatBits>>)
    THEN [score |-> max_anomaly_score, status |-> "MEDIUM_ANOMALY"]
    ELSE IF FlGt(avg_anomaly_score, <<3 * 2^(FloatBits - 2), 1 - FloatBits>>)
    THEN [score |-> avg_anomaly_score, status |-> "LOW_ANOMALY"]
    ELSE [score |-> avg_anomaly_score, status |-> "NORMAL"]

\* simple_anomaly_detection as numpy computes it, in floating point
simple_anomaly_detection_float(current_features, historical_features) ==
    IF Len(historical_features) < MinSamples
    THEN [score |-> FlZero, status |-> "Insufficient historical data"]
    ELSE LET anomaly_scores == FlAnomalyScores(current_features, historical_features)
         IN IF anomaly_scores # <<>>
            THEN FlLabel(FlMean(anomaly_scores), FlMax(anomaly_scores))
            ELSE [score |-> FlZero, status |-> "NORMAL"]

(***************************************************************************)
(* SpecFloat: simple_anomaly_detection in floating point, applied once to  *)
(* a current vector and a history of MinSamples - 1 .. MaxFloatHist equal  *)
(* vectors.                                                                *)
(***************************************************************************)
FloatValues == {<<2^(FloatBits - 1) + k, 0>> : k \in {0, 3, 5, 7}}
FloatVectors == FloatValues \X FloatValues
ConstantHistories ==
    {AsList([k \in 1..n |-> v]) : n \in (MinSamples - 1)..MaxFloatHist, v \in FloatVectors}

InitFloat ==
    /\ script = "simple_anomaly_detection_float"
    /\ sklearn_available = FALSE
    /\ arg \in [current_features : FloatVectors, historical_features : ConstantHistories]
    /\ InitObjects

ApplyFloat ==
    /\ script = "simple_anomaly_detection_float"
    /\ result = NoCall
    /\ result' = simple_anomaly_detection_float(arg.current_features, arg.historical_features)
    /\ UNCHANGED <<script, now, detector_vars, monitor_vars, tracker_vars, thread_vars, arg>>

SpecFloat == InitFloat /\ [][ApplyFloat]_vars

(***************************************************************************)
(* SpecDna: calculate_process_dna applied once to two histories of         *)
(* DnaMinSamples - 1 .. MaxDnaHist entries: a history and the same history *)
(* with one entry replaced or with every shared size doubled.              *)
(***************************************************************************)
MaxDnaHist == 5

DnaEntry(rss, shared) ==
    [pid |-> 1, rss |-> rss, vms |-> 4000, shared |-> shared, data_segment |-> 0,
     stack_segment |-> 0, memory_percent |-> 3, cpu_percent |-> 0, num_threads |-> 2,
     memory_maps_count |-> 5, timestamp |-> 0]

DnaEntries == {DnaEntry(4000, 1), DnaEntry(4000, 2), DnaEntry(0, 0)}

\* the history of a process that shares twice as many bytes
TwiceShared(process_history) ==
    [k \in 1..Len(process_history) |->
        [process_history[k] EXCEPT !.shared = 2 * process_history[k].shared]]
DnaHistories == UNION {[1..n -> DnaEntries] : n \in (DnaMinSamples - 1)..MaxDnaHist}

InitDna ==
    /\ script = "calculate_process_dna"
    /\ sklearn_available = FALSE
    /\ \E h \in DnaHistories, i \in 1..MaxDnaHist, e \in DnaEntries :
           /\ i <= Len(h)
           /\ arg \in {[first |-> h, second |-> [h EXCEPT ![i] = e]],
                       [first |-> h, second |-> TwiceShared(h)]}
    /\ InitObjects

ApplyDna ==
    /\ script = "calculate_process_dna"
    /\ result = NoCall
    /\ result' = [first |-> calculate_process_dna(arg.first),
                  second |-> calculate_process_dna(arg.second)]
    /\ UNCHANGED <<script, now, detector_vars, monitor_vars, tracker_vars, thread_vars, arg>>

SpecDna == InitDna /\ [][ApplyDna]_vars

(***************************************************************************)
(* ProcessMemoryTracker.detect_memory_anomalies: its status and the        *)
(* MEMORY_LEAK entry of its anomalies (the entries for unusual usage and   *)
(* thread instability are left out).                                       *)
(***************************************************************************)
RecentMinSamples == 5     \* len(recent_history) < 5

\* if dna_pattern['growth_rate'] > 0.05: ... 'HIGH' if ... > 0.1 else 'MEDIUM'
LeakAnomalies(dna_pattern) ==
    IF RatGt(dna_pattern.growth_rate, <<5, 100>>)
    THEN <<[type |-> "MEMORY_LEAK",
            severity |-> IF RatGt(dna_pattern.growth_rate, <<10, 100>>)
                         THEN "HIGH" ELSE "MEDIUM"]>>
    ELSE <<>>

\* LeakAnomalies of the fingerprint of the entries now in the history
LeakAnomaliesOfHistory(process_history) ==
    IF calculate_process_dna(process_history) = None THEN <<>>
    ELSE LeakAnomalies(calculate_process_dna(process_history).pattern)

\* list(self.process_histories[pid])[-10:]
LastEntries(process_history, count) ==
    SubSeq(process_history,
           IF Len(process_history) > count THEN Len(process_history) - count + 1 ELSE 1,
           Len(process_history))

detect_memory_anomalies(pid, histories, dna) ==
    IF pid \notin DOMAIN dna THEN [status |-> "insufficient_data", anomalies |-> <<>>]
    ELSE IF Len(LastEntries(Get(histories, pid), RecentHistory)) < RecentMinSamples
    THEN [status |-> "insufficient_recent_data", anomalies |-> <<>>]
    ELSE [status |-> "analyzed", anomalies |-> LeakAnomalies(dna[pid].pattern)]

(***************************************************************************)
(* SpecVerdict: the leak verdicts of the monitor and of the tracker for a  *)
(* process after two runs of samples that end in the same VerdictWindow    *)
(* resident sizes, rising from a base by a step every fourth sample, and   *)
(* differ in what came before them: nothing, or one older sample.          *)
(***************************************************************************)
VerdictWindow == 20
MaxVerdictStep == 3
VerdictBases == {3, 5}
OlderRss == {0, 1, 12}

\* the samples of a run: the older ones, then the window
VerdictRun(older, base, step) ==
    older \o [i \in 1..VerdictWindow |-> base + (step * (i - 1)) \div 4]

\* `history` after detect_memory_leak has been called once for each of the
\* first k samples of the run
RECURSIVE MonitorAfter(_, _)
MonitorAfter(run, k) ==
    IF k = 0 THEN EmptyMap
    ELSE CHOOSE after \in {LeakLoop(before, <<>>, <<[pid |-> 1, rss |-> run[k]]>>)[1] :
                               before \in {MonitorAfter(run, k - 1)}} : TRUE

\* the leaks of the call of detect_memory_leak for the last sample of the run
MonitorVerdict(run) ==
    LeakLoop(MonitorAfter(run, Len(run) - 1), <<>>, <<[pid |-> 1, rss |-> Last(run)]>>)[2]

VerdictEntry(rss, stamp) == [DnaEntry(rss, 0) EXCEPT !.vms = 8, !.timestamp = stamp]

\* the tracker after track_processes has met the first k samples of the run
RECURSIVE TrackerAfter(_, _)
TrackerAfter(run, k) ==
    IF k = 0 THEN WarmTracker(0)
    ELSE CHOOSE after \in {TrackOne(before, VerdictEntry(run[k], k), "ok") :
                               before \in {TrackerAfter(run, k - 1)}} : TRUE

\* detect_memory_anomalies after the run
TrackerVerdict(tracker) ==
    detect_memory_anomalies(1, tracker.process_histories, tracker.process_dna)

Verdicts(run) ==
    [monitor |-> MonitorVerdict(run),
     tracker |-> TrackerVerdict(TrackerAfter(run, Len(run)))]

InitVerdict ==
    /\ script = "leak_verdict"
    /\ sklearn_available = FALSE
    /\ \E step \in 0..MaxVerdictStep, base \in VerdictBases, a \in OlderRss, b \in OlderRss,
          longer \in BOOLEAN :
           arg = [first |-> VerdictRun(<<a>>, base, step),
                  second |-> VerdictRun(IF longer THEN <<b>> ELSE <<>>, base, step)]
    /\ InitObjects

ApplyVerdict ==
    /\ script = "leak_verdict"
    /\ result = NoCall
    /\ result' = [first |-> Verdicts(arg.first), second |-> Verdicts(arg.second)]
    /\ UNCHANGED <<script, now, detector_vars, monitor_vars, tracker_vars, thread_vars, arg>>

SpecVerdict == InitVerdict /\ [][ApplyVerdict]_vars

(***************************************************************************)
(* Properties.                                                             *)
(***************************************************************************)
Returned == "status" \in DOMAIN result

\* the entry a call of detect_memory_patterns stores for its sample
StoredItem(stamp, call) == [timestamp |-> stamp, features |-> extract_features(call.memory_data)]

\* a window of capacity cap after x was appended: the oldest entry goes
\* when the window was full, the rest keeps its order, x is last
FifoAppend(window, x, cap) ==
    IF Len(window) < cap THEN Append(window, x) ELSE Append(Tail(window), x)

C1_Step ==
    /\ Len(memory_sequences') <= GlobalCapacity
    /\ \A pid \in DOMAIN history' : Len(history'[pid]) <= HistoryMaxLen
    /\ \A pid \in DOMAIN process_patterns' : Len(process_patterns'[pid]) <= SamplesMax
    /\ \A pid \in DOMAIN process_histories' : Len(process_histories'[pid]) <= TrackerMaxLen
    /\ (script = "detect_memory_patterns" /\ "raised" \notin DOMAIN result') =>
           memory_sequences' = FifoAppend(memory_sequences, StoredItem(now', arg'), GlobalCapacity)
    /\ script = "detect_memory_leak" =>
           history' = Put(history, arg'[1].pid,
                          FifoAppend(Get(history, arg'[1].pid), arg'[1].rss, HistoryMaxLen))
    /\ script = "detect_anomalies" =>
           process_patterns' =
               Put(process_patterns, arg'[1].pid,
                   FifoAppend(Get(process_patterns, arg'[1].pid),
                              calculate_memory_fingerprint(arg'[1]), SamplesMax))
    /\ script = "track_processes" =>
           process_histories' =
               Put(process_histories, arg'.pid,
                   FifoAppend(Get(process_histories, arg'.pid), arg', TrackerMaxLen))

\* C1: no history window ever holds more than its capacity (100 for the
\* detector's 'global' sequence and the leak history, 200 for the process
\* tracker, 20 for the fingerprint samples), and an append to a full window
\* removes exactly the oldest entry, keeps the others in order and puts the
\* new sample last.
C1_HistoryWindowFifo == [][C1_Step]_vars

\* the 'global' window is full, its oldest samples are gone, the newest is last
C1_Witness ==
    /\ script = "detect_memory_patterns"
    /\ Len(memory_sequences) = GlobalCapacity
    /\ Head(memory_sequences).timestamp = now - GlobalCapacity + 1
    /\ Head(memory_sequences).timestamp > 1
    /\ Last(memory_sequences).timestamp = now

\* C2: a call made while fewer than 5 samples were stored before the
\* current one returns status LEARNING and anomaly_score 0 (with both
\* fields present).
C2_LearningBelowMinSamples ==
    (Returned /\ Len(memory_sequences) - 1 < MinSamples) =>
        /\ "anomaly_score" \in DOMAIN result
        /\ result.status = "LEARNING"
        /\ result.anomaly_score = NumZero

StatusLabels == {"LEARNING", "NORMAL", "LOW_ANOMALY", "MEDIUM_ANOMALY", "HIGH_ANOMALY"}

\* C3: the status of every result of detect_memory_patterns is one of
\* LEARNING, NORMAL, LOW_ANOMALY, MEDIUM_ANOMALY, HIGH_ANOMALY.
C3_StatusInLabelSet == Returned => result.status \in StatusLabels

StatCalled == script = "simple_anomaly_detection" /\ result # NoCall
StatScored == StatCalled /\ Len(arg.historical_features) >= MinSamples
StatZ == AnomalyScores(arg.current_features, arg.historical_features)
SomeZAbove(zs, k) == \E i \in 1..Len(zs) : zs[i][1] * zs[i][1] > k * k * zs[i][2]
\* z = 7/2
IsThreeAndAHalf(z) == 4 * z[1] * z[1] = 49 * z[2]

\* C4: with at least 5 historical vectors the label is decided by max_z and
\* mean_z over the features with std > 0: max_z > 3 gives HIGH_ANOMALY, else
\* max_z > 2 gives MEDIUM_ANOMALY, else mean_z > 1.5 gives LOW_ANOMALY, else
\* NORMAL; a value exactly 3.5 standard deviations from the mean gives
\* HIGH_ANOMALY, with max_z = 3.5 reported when it is the largest z-score.
C4_ThresholdLabels ==
    StatScored =>
        LET zs == StatZ
        IN /\ result.status =
                  IF zs = <<>> THEN "NORMAL"
                  ELSE IF SomeZAbove(zs, 3) THEN "HIGH_ANOMALY"
                  ELSE IF SomeZAbove(zs, 2) THEN "MEDIUM_ANOMALY"
                  ELSE IF MeanGt15(zs) THEN "LOW_ANOMALY"
                  ELSE "NORMAL"
           /\ (\E i \in 1..Len(zs) : IsThreeAndAHalf(zs[i])) => result.status = "HIGH_ANOMALY"
           /\ (zs # <<>> /\ IsThreeAndAHalf(MaxZ(zs))) => result.score = Rat(7, 2)

\* a current value 3.5 standard deviations off: HIGH_ANOMALY with score 3.5
C4_Witness ==
    /\ StatScored
    /\ \E i \in 1..Len(StatZ) : IsThreeAndAHalf(StatZ[i])
    /\ result = [score |-> Rat(7, 2), status |-> "HIGH_ANOMALY"]

\* C5: a sample with a negative metric value is rejected with InvalidSample
\* and the history window is the same after the call as before it.
C5_NegativeSampleRejected ==
    [][(script = "detect_memory_patterns" /\ Negative(arg'.memory_data)) =>
           /\ result' = [raised |-> "InvalidSample"]
           /\ memory_sequences' = memory_sequences]_vars

MlFailed(call) == call.ml.called /\ call.ml.fails

C6_Step ==
    MlFailed(arg') =>
        LET item == StoredItem(now', arg')
            stat == simple_anomaly_detection(item.features, FeaturesOf(Front(memory_sequences')))
        IN /\ "raised" \notin DOMAIN result'
           /\ "status" \in DOMAIN result'
           /\ result'.status = stat.status
           /\ result'.anomaly_score = stat.score
           /\ memory_sequences' = FifoAppend(memory_sequences, item, GlobalCapacity)

\* C6: when model fitting or scoring fails inside detect_memory_patterns the
\* call still returns; status and score are those of the statistical method
\* for the same current vector and history, and the window is the window
\* after the append.
C6_FallbackIsStatistical == [][C6_Step]_vars

\* a failed fit whose fallback result is an anomaly
C6_Witness ==
    /\ script = "detect_memory_patterns"
    /\ arg # NoCall
    /\ MlFailed(arg)
    /\ result.status = "MEDIUM_ANOMALY"

\* C8: the score of the statistical method equals max_z for every label.
C8_ScoreIsMaxZ ==
    StatScored =>
        LET zs == StatZ
        IN zs # <<>> => result.score = NumOfZ(MaxZ(zs))

\* C8, amended: the score is max_z for HIGH_ANOMALY and MEDIUM_ANOMALY and
\* mean_z for LOW_ANOMALY and NORMAL (0 when no feature has std > 0).
C8_ScoreByLabel ==
    StatScored =>
        LET zs == StatZ
        IN IF zs = <<>> THEN result.score = NumZero
           ELSE IF result.status \in {"HIGH_ANOMALY", "MEDIUM_ANOMALY"}
           THEN result.score = NumOfZ(MaxZ(zs))
           ELSE result.score = MeanZ(zs)

\* LOW_ANOMALY reported with a score below max_z
C8_Witness ==
    /\ StatScored
    /\ result.status = "LOW_ANOMALY"
    /\ result.score = MeanZ(StatZ)
    /\ result.score # NumOfZ(MaxZ(StatZ))

FloatCalled == script = "simple_anomaly_detection_float" /\ result # NoCall

\* C7: for a history of at least 5 vectors in which every feature is
\* constant, every z-score of the current vector is 0 and the statistical
\* method returns NORMAL with score 0, whatever the current vector is.
C7_ConstantHistoryIsNormal ==
    (/\ FloatCalled
     /\ Len(arg.historical_features) >= MinSamples
     /\ \A k \in 1..Len(arg.historical_features) :
            arg.historical_features[k] = arg.historical_features[1]) =>
        LET zs == FlAnomalyScores(arg.current_features, arg.historical_features)
        IN /\ \A i \in 1..Len(zs) : zs[i] = FlZero
           /\ result = [score |-> FlZero, status |-> "NORMAL"]

\* decimal places of the fixed precision
RoundPlaces == 2

\* round(r, k) for a rational r, as a multiple of 10^-k
RoundRat(r, k) ==
    LET n == r[1] * 10^k
        q == n \div r[2]
        rem == n % r[2]
    IN IF 2 * rem > r[2] \/ (2 * rem = r[2] /\ q % 2 = 1) THEN q + 1 ELSE q

\* round(sqrt(v), k) for a rational v >= 0, as a multiple of 10^-k
RoundRoot(v, k) ==
    LET T == 4 * 100^k * v[1]
    IN CHOOSE m \in 0..(10^k * (v[1] \div v[2] + 1)) :
           /\ m = 0 \/ (2 * m - 1) * (2 * m - 1) * v[2] <= T
           /\ T < (2 * m + 1) * (2 * m + 1) * v[2]

\* round(x, k) for x = c * sqrt(r), c >= 0, or x = 0
RoundNum(x, k) ==
    IF x = NumZero THEN 0
    ELSE LET t == CHOOSE u \in x : x = {u}
         IN RoundRoot(RatNorm(t[2] * t[2] * t[1], t[3] * t[3]), k)

StdKeys == {"std_rss", "std_vms", "thread_stability", "memory_variability"}

RoundedStatistic(key, value) ==
    IF key \in StdKeys THEN RoundRoot(value.sqrt, RoundPlaces)
    ELSE IF key = "pattern_complexity" THEN RoundNum(value, RoundPlaces)
    ELSE IF key = "cpu_correlation"
    THEN IF value.kind = "nan" THEN -2 * 10^RoundPlaces
         ELSE value.sign * RoundRoot(value.square, RoundPlaces)
    ELSE RoundRat(value, RoundPlaces)

RoundedPattern(dna_pattern) ==
    [key \in DOMAIN dna_pattern |-> RoundedStatistic(key, dna_pattern[key])]

\* C10: two histories whose statistics are identical after rounding to the
\* fixed precision get the same hash, the same history always gets the same
\* hash, and two histories with a statistic that differs after rounding get
\* different hashes.
C10_RoundedStatisticsDecideHash ==
    (/\ script = "calculate_process_dna"
     /\ result # NoCall
     /\ result.first # None
     /\ result.second # None) =>
        /\ arg.first = arg.second => result.first.hash = result.second.hash
        /\ RoundedPattern(result.first.pattern) = RoundedPattern(result.second.pattern)
               <=> result.first.hash = result.second.hash

(***************************************************************************)
(* C11.  Leak classification of one entity's sequence.                     *)
(***************************************************************************)
LeakCalled == script = "detect_memory_leak" /\ result # NoCall

\* the sequence of the entity of the last call, the value of that call included
LeakData == history[arg[1].pid]

\* growth_rate = slope / mean exceeds n / d (for a sequence of nonzero mean)
GrowthGt(data, n, d) == RatGt(RatDiv(Slope(data), Mean(data)), <<n, d>>)

Severities(leaks) == {leaks[i].risk_level : i \in 1..Len(leaks)}
LeakPids(leaks) == {leaks[i].pid : i \in 1..Len(leaks)}

\* the report of a sequence by its growth_rate: HIGH above 0.10, MEDIUM above
\* 0.05 and up to 0.10, nothing otherwise, under the id of the entity
ClassifiedByGrowth(data, leaks) ==
    /\ "HIGH" \in Severities(leaks) <=> GrowthGt(data, 1, 10)
    /\ "MEDIUM" \in Severities(leaks) <=> (GrowthGt(data, 1, 20) /\ ~GrowthGt(data, 1, 10))
    /\ leaks = <<>> <=> ~GrowthGt(data, 1, 20)
    /\ Len(leaks) <= 1
    /\ LeakPids(leaks) \subseteq {arg[1].pid}

\* C11 as stated: every sequence (of at least two values and nonzero mean, so
\* that growth_rate is defined) is reported HIGH exactly when its growth_rate
\* is above 0.10, MEDIUM exactly when it is above 0.05 and at most 0.10, and
\* not at all otherwise.
C11_LeakSeverityByGrowthRate ==
    (LeakCalled /\ Len(LeakData) >= 2 /\ Mean(LeakData)[1] # 0)
        => ClassifiedByGrowth(LeakData, result.leaks)

\* C11 amended: the classification by growth_rate holds once the history of
\* the entity holds at least LeakMinSamples values; a shorter history is never
\* reported; with a zero mean the quotient of the floats decides (a positive
\* slope over zero is +inf: HIGH; nan and -inf report nothing).
C11_LeakSeverityFromTenSamples ==
    LeakCalled =>
        IF Len(LeakData) < LeakMinSamples THEN result.leaks = <<>>
        ELSE IF Mean(LeakData)[1] # 0 THEN ClassifiedByGrowth(LeakData, result.leaks)
        ELSE IF Slope(LeakData)[1] > 0
             THEN Severities(result.leaks) = {"HIGH"} /\ Len(result.leaks) = 1
             ELSE result.leaks = <<>>

\* a sequence of ten values rising by 2 from 11 has growth_rate exactly 0.10
\* and is reported MEDIUM
C11_Witness ==
    /\ LeakCalled
    /\ Len(LeakData) = LeakMinSamples
    /\ Mean(LeakData)[1] # 0
    /\ RatDiv(Slope(LeakData), Mean(LeakData)) = <<1, 10>>
    /\ Severities(result.leaks) = {"MEDIUM"}


(***************************************************************************)
(* C12.  The sequence 1000, 1050, ..., 1551.                               *)
(***************************************************************************)
GrowingCalled == LeakCalled /\ LeakData = GrowingSequence

\* C12 as stated: with GrowingSequence as the whole history of an entity, a
\* leak of severity MEDIUM or HIGH is reported for it.
C12_GrowingSequenceReported ==
    GrowingCalled =>
        /\ result.leaks # <<>>
        /\ Severities(result.leaks) \subseteq {"MEDIUM", "HIGH"}
        /\ LeakPids(result.leaks) = {arg[1].pid}

\* C12 amended: with GrowingSequence as the whole history of an entity no leak
\* is reported: its growth_rate is below 0.05.
C12_GrowingSequenceNotReported ==
    GrowingCalled => (result.leaks = <<>> /\ ~GrowthGt(LeakData, 1, 20))

\* the tenth value is appended, and the growth_rate is (2015 / 33) / (12573 / 10)
C12_Witness ==
    /\ GrowingCalled
    /\ Slope(LeakData) = <<2015, 33>>
    /\ Mean(LeakData) = <<12573, 10>>
    /\ GrowthGt(LeakData, 4, 100)


(***************************************************************************)
(* C13.  The fingerprint is recomputed on every 10th append only.          *)
(***************************************************************************)
\* the appends made to the history of pid after the time t that are still held
AppendsSince(pid, t) ==
    Cardinality({k \in 1..Len(process_histories'[pid]) : process_histories'[pid][k].timestamp > t})

\* C13: of any 10 consecutive appends to the history of one entity at most one
\* makes update_process_dna recompute its fingerprint: a recomputation comes at
\* least 10 appends after the one before it, also once the window holds its
\* 200 entries.
C13_Step ==
    \A pid \in DOMAIN db_dna :
        db_dna'[pid] # db_dna[pid] => AppendsSince(pid, db_dna[pid].last_updated) >= DnaEvery

C13_RecomputedEveryTenthAppend == [][C13_Step]_vars


(***************************************************************************)
(* C14, C15.  The messages of generate_insights.                           *)
(***************************************************************************)
InsightsCalled == script = "generate_insights" /\ result # NoCall

\* the place of a message in the order anomaly status, trend, periodicity,
\* leak, variability (a prediction message after them)
InsightRank(message) ==
    IF message.insight \in {"HIGH_ANOMALY", "MEDIUM_ANOMALY", "LOW_ANOMALY"} THEN 0
    ELSE IF message.insight = "INCREASING_MEMORY_USAGE" THEN 1
    ELSE IF message.insight = "PERIODIC_PATTERN" THEN 2
    ELSE IF message.insight = "MEMORY_LEAK" THEN 3
    ELSE IF message.insight = "HIGH_VARIABILITY" THEN 4
    ELSE 5

\* C14: the messages come in the order anomaly-status message, trend messages,
\* periodicity messages, leak messages, variability messages, with at most one
\* message per pattern type, whatever the order and the multiplicity of the
\* patterns of the analysis result.
C14_InsightsInFixedOrder ==
    InsightsCalled =>
        \A i, j \in 1..Len(result.insights) :
            i < j =>
                /\ InsightRank(result.insights[i]) <= InsightRank(result.insights[j])
                /\ InsightRank(result.insights[i]) = InsightRank(result.insights[j])
                       => InsightRank(result.insights[i]) = 5

QuietResult == InsightsCalled /\ arg.status = "NORMAL" /\ arg.patterns = <<>>

\* C15 as stated: a NORMAL result without patterns gives no message, whatever
\* its score, predictions and method.
C15_NormalWithoutPatternsIsSilent == QuietResult => result.insights = <<>>

\* one of the first two predictions is a memory usage above 90 percent
PredictsAbove90(predictions) ==
    \E k \in 1..Len(predictions) :
        /\ k <= 2
        /\ "predicted_memory_usage" \in DOMAIN predictions[k]
        /\ RatGt(predictions[k].predicted_memory_usage, <<90, 1>>)

\* C15 amended: a NORMAL result without patterns gives no message exactly when
\* neither of its first two predictions is a memory usage above 90 percent,
\* whatever its score, its method and its later predictions; otherwise every
\* message it gives is a prediction message.
C15_NormalWithoutPatternsAndHighPrediction ==
    QuietResult =>
        /\ result.insights = <<>> <=> ~PredictsAbove90(arg.predictions)
        /\ \A k \in 1..Len(result.insights) : result.insights[k].insight = "PREDICTION"

\* a NORMAL result without patterns, with a score and a third prediction above
\* 90 percent, gives no message
C15_Witness ==
    /\ QuietResult
    /\ arg.anomaly_score # NumZero
    /\ Len(arg.predictions) = 3
    /\ RatGt(arg.predictions[3].predicted_memory_usage, <<90, 1>>)
    /\ result.insights = <<>>


(***************************************************************************)
(* C16.  A sinusoid of period 5 over 20 samples.                           *)
(***************************************************************************)
TrendsCalled == script = "detect_trends" /\ result # NoCall

\* C16: given 20 samples whose memory usage is a sinusoid of period 5, the
\* patterns of detect_trends hold a PERIODIC pattern of period 4, 5 or 6.
C16_SinusoidGivesPeriodFive ==
    (TrendsCalled /\ Len(arg.sequence) = PeriodSamples) =>
        \E k \in 1..Len(result.patterns) :
            /\ result.patterns[k].type = "PERIODIC_PATTERN"
            /\ result.patterns[k].period \in 4..6


(***************************************************************************)
(* C17, C18.  Threads.                                                     *)
(***************************************************************************)
\* the thread stands at a `with self.lock:` it cannot enter
WaitsForLock(t) == pc[t] \in DOMAIN AfterLock /\ lock # "free"

\* C17: a producer appending (or updating the fingerprint) for one entity is
\* never kept waiting by a lock that a producer holds for another entity.
C17_NoLockAcrossEntities ==
    \A t1, t2 \in Producers :
        (EntityOf(t1) # EntityOf(t2) /\ lock = t2) => ~WaitsForLock(t1)

IsPrefix(s, t) == Len(s) <= Len(t) /\ s = SubSeq(t, 1, Len(s))

\* C18: the reader never fails because the entity map or a history changed
\* while it was reading, and a history it has copied is the window as it was
\* after some append (below the capacity: a prefix of the window of now).
C18_ReaderSeesWindowsAndNeverFails ==
    /\ pc["reader"] # "RuntimeError"
    /\ pc["reader"] = "summary_made" =>
           /\ local["reader"].history # <<>>
           /\ IsPrefix(local["reader"].history, process_histories[Head(local["reader"].queue)])

(***************************************************************************)
(* Ticks over several processes.                                           *)
(***************************************************************************)
TickCalled == script \in {"track_processes_tick", "main"} /\ result # NoCall

\* the sample of this tick is the last of the window of the tracker, and in
\* the batch saved
TrackedNow(proc) ==
    /\ Get(process_histories, proc.pid) # <<>>
    /\ Last(Get(process_histories, proc.pid)).timestamp = now
    /\ \E j \in 1..Len(result.saved) : result.saved[j] = proc.pid

\* the sample of this tick is the last of both windows of the monitor
MonitoredNow(proc) ==
    /\ Get(history, proc.pid) # <<>>
    /\ Last(Get(history, proc.pid)) = proc.memory_info.rss
    /\ Get(process_patterns, proc.pid) # <<>>
    /\ Last(Get(process_patterns, proc.pid)) = calculate_memory_fingerprint(proc.memory_info)

\* C19: in a tick over several processes, a process that fails does not keep
\* the others from being appended and analysed: every readable process of the
\* tick has its sample of this tick in its windows and in what the tick saves.
C19_FailureLeavesOtherEntitiesAlone ==
    TickCalled =>
        \A i \in 1..Len(arg) :
            arg[i].memory_info # None =>
                IF script = "main" THEN MonitoredNow(arg[i]) ELSE TrackedNow(arg[i])

\* the processes that a tick was given
TickSampled(processes) == {processes[i].pid : i \in 1..Len(processes)}

\* the sample of processes[i] is processed: the tracker reaches it when every
\* process up to it is readable, the monitor when every process is
TickProcessed(processes, i) ==
    \A j \in 1..Len(processes) :
        (script = "main" \/ j <= i) => processes[j].memory_info # None

\* after the step, the entity has what it had: the same windows and the same
\* fingerprint, or none as before
EntityUnchanged(pid) ==
    /\ Get(process_histories', pid) = Get(process_histories, pid)
    /\ Get(history', pid) = Get(history, pid)
    /\ Get(process_patterns', pid) = Get(process_patterns, pid)
    /\ (pid \in DOMAIN process_dna') = (pid \in DOMAIN process_dna)
    /\ pid \in DOMAIN process_dna => process_dna'[pid] = process_dna[pid]

\* after the step, every entity known before is known, with a fingerprint if
\* it had one and with windows no shorter than before
EntitiesKept ==
    /\ \A pid \in DOMAIN process_histories :
           /\ pid \in DOMAIN process_histories'
           /\ Len(process_histories'[pid]) >= Len(process_histories[pid])
    /\ \A pid \in DOMAIN history :
           pid \in DOMAIN history' /\ Len(history'[pid]) >= Len(history[pid])
    /\ \A pid \in DOMAIN process_patterns :
           /\ pid \in DOMAIN process_patterns'
           /\ Len(process_patterns'[pid]) >= Len(process_patterns[pid])
    /\ DOMAIN process_dna \subseteq DOMAIN process_dna'

\* after the step, the entity of a processed sample is known and the sample
\* is the last of its window
EntityCreated(proc) ==
    IF script = "main"
    THEN /\ proc.pid \in DOMAIN history' /\ proc.pid \in DOMAIN process_patterns'
         /\ Last(history'[proc.pid]) = proc.memory_info.rss
    ELSE /\ proc.pid \in DOMAIN process_histories'
         /\ Last(process_histories'[proc.pid]).timestamp = now'

C20_Step ==
    /\ \A pid \in {1, 2} \ TickSampled(arg') : EntityUnchanged(pid)
    /\ EntitiesKept
    /\ \A i \in 1..Len(arg') : TickProcessed(arg', i) => EntityCreated(arg'[i])

FeaturesCalled == script = "extract_features" /\ result # NoCall

IsZero(x) == x[1] = 0

\* C21: extract_features is total on well-formed samples (total 0, used =
\* total and an empty process list included): it raises nothing and returns
\* 8 features, a ratio with a zero divisor being 0, the last one in [0, 1].
C21_ExtractFeaturesIsTotal ==
    FeaturesCalled =>
        /\ "features" \in DOMAIN result
        /\ Len(result.features) = 8
        /\ arg.system.physical.total = 0 =>
               IsZero(result.features[2]) /\ IsZero(result.features[5])
        /\ arg.system.physical.total = arg.system.physical.used => IsZero(result.features[8])
        /\ ~RatGt(result.features[8], <<1, 1>>) /\ result.features[8][1] >= 0

(***************************************************************************)
(* Zero variance and zero mean in the fingerprint.                         *)
(***************************************************************************)
DnaCalled == script = "calculate_process_dna" /\ result # NoCall

IsConstant(values) == \A i \in 1..Len(values) : values[i] = values[1]

ZeroCorrelation == [kind |-> "value", sign |-> 0, square |-> <<0, 1>>]

\* the correlation of a fingerprint is 0 if it is made from fewer than 2
\* samples or if the sizes or the activities are all the same
CorrelationGuarded(process_history, dna_info) ==
    LET features == SelectSeq(process_history, HasRss)
    IN (\/ Len(features) < 2
        \/ IsConstant(Column(features, "rss"))
        \/ IsConstant(Column(features, "cpu_percent")))
           => dna_info.pattern.cpu_correlation = ZeroCorrelation

\* C22: zero variance and zero mean give 0, never an error or an undefined
\* value: the growth rate of a sequence of mean 0 or of fewer than 2 values
\* is 0, and the correlation of sizes and activity in a fingerprint is 0 when
\* one of the two is constant or there are fewer than 2 samples.
C22_ZeroCasesYieldZero ==
    /\ \A n \in 0..MaxDnaHist : calculate_growth_rate([i \in 1..n |-> 0]) = <<0, 1>>
    /\ calculate_growth_rate(<<4000>>) = <<0, 1>>
    /\ DnaCalled =>
           /\ result.first # None => CorrelationGuarded(arg.first, result.first)
           /\ result.second # None => CorrelationGuarded(arg.second, result.second)

(***************************************************************************)
(* The samples needed before a score.                                      *)
(***************************************************************************)
ScoredStatuses == {"NORMAL", "LOW_ANOMALY", "MEDIUM_ANOMALY", "HIGH_ANOMALY", "ANOMALY_DETECTED"}

\* after a call: the samples stored before the current one, for a window
\* that has not begun to drop its oldest
HistoryBefore(window) == Len(window) - 1

C23_Step ==
    /\ (script = "detect_memory_patterns" /\ "status" \in DOMAIN result') =>
           /\ result'.status \in ScoredStatuses =>
                  HistoryBefore(memory_sequences') >= MinSamples
           /\ arg'.ml.called => HistoryBefore(memory_sequences') >= MlMinSamples
           /\ ("status" \in DOMAIN result /\ result.status # "LEARNING") =>
                  result'.status # "LEARNING"
    /\ script = "detect_anomalies" =>
           \A i \in 1..Len(result'.anomalies) :
               HistoryBefore(process_patterns'[result'.anomalies[i].pid]) >= AnomalyMinSamples

\* C23: no entity is scored before the samples stored before the current one
\* number at least 5 (statistical method) or 10 (model): until then no score
\* is computed and no anomaly reported; and an entity that has been scored is
\* not answered with LEARNING again.
C23_ScoredOnlyWithEnoughHistory == [][C23_Step]_vars

(***************************************************************************)
(* The choice of the method in detect_memory_patterns.                     *)
(***************************************************************************)
\* status and score of the statistical method for the current sample against
\* the window without it
StatisticalNow ==
    simple_anomaly_detection(Last(memory_sequences).features,
                             FeaturesOf(Front(memory_sequences)))

C25_TrendsReportedOnEveryPath ==
    (Returned /\ result.status # "LEARNING") =>
        \A i \in 1..Len(detect_trends(memory_sequences)) :
            \E j \in 1..Len(result.patterns) :
                result.patterns[j] = detect_trends(memory_sequences)[i]

(***************************************************************************)
(* C26.  The trend pattern of a window.                                    *)
(***************************************************************************)
TrendCalled ==
    script = "detect_trends" /\ result # NoCall /\ Len(arg.sequence) >= TrendMinSamples

\* the least-squares slope over the most recent up to 10 samples
WindowSlope == Slope(LastUsage(arg.sequence, TrendSamples))

SlopeAbove(k) == RatGt(WindowSlope, <<k, 1>>)
SlopeBelow(k) == RatGt(<<k, 1>>, WindowSlope)

TrendTypes == {"INCREASING_MEMORY_USAGE", "DECREASING_MEMORY_USAGE"}
TrendsOf(patterns) == SelectSeq(patterns, LAMBDA p : p.type \in TrendTypes)

\* one trend pattern exactly when the magnitude of the slope is above 1,
\* tagged by the sign of the slope
TrendEmittedByMagnitude ==
    /\ Len(TrendsOf(result.patterns)) = IF SlopeAbove(1) \/ SlopeBelow(-1) THEN 1 ELSE 0
    /\ \A j \in 1..Len(TrendsOf(result.patterns)) :
           TrendsOf(result.patterns)[j].type =
               IF SlopeAbove(0) THEN "INCREASING_MEMORY_USAGE" ELSE "DECREASING_MEMORY_USAGE"

\* C26 (as stated): a trend pattern is emitted exactly when the magnitude of
\* the slope exceeds 1.0, increasing for a positive and decreasing for a
\* negative slope, and its severity is HIGH exactly when the magnitude
\* exceeds 5.0 and MEDIUM otherwise, for both signs.
C26_SeverityByMagnitudeBothSigns ==
    TrendCalled =>
        /\ TrendEmittedByMagnitude
        /\ \A j \in 1..Len(TrendsOf(result.patterns)) :
               TrendsOf(result.patterns)[j].severity =
                   IF SlopeAbove(5) \/ SlopeBelow(-5) THEN "HIGH" ELSE "MEDIUM"

\* C26 (amended): a trend pattern is emitted exactly when the magnitude of
\* the slope exceeds 1.0, increasing for a positive and decreasing for a
\* negative slope; the severity of an increasing trend is HIGH exactly when
\* the slope exceeds 5.0 and MEDIUM otherwise, and the severity of a
\* decreasing trend is always LOW.
C26_SeverityOfIncreasingOnly ==
    TrendCalled =>
        /\ TrendEmittedByMagnitude
        /\ \A j \in 1..Len(TrendsOf(result.patterns)) :
               TrendsOf(result.patterns)[j].severity =
                   IF SlopeBelow(0) THEN "LOW"
                   ELSE IF SlopeAbove(5) THEN "HIGH" ELSE "MEDIUM"

\* a window that falls by more than 5 a sample has been analysed
C26_Witness ==
    /\ TrendCalled
    /\ SlopeBelow(-5)
    /\ Len(TrendsOf(result.patterns)) = 1

(***************************************************************************)
(* C27.  The period and the strength of a PERIODIC pattern.                *)
(***************************************************************************)
PeriodCalled ==
    script = "detect_trends" /\ result # NoCall /\ Len(arg.sequence) >= PeriodSamples

\* the autocorrelation of the last 20 values at the lags 0, 1, ...
WindowAutocorr == Autocorr(LastUsage(arg.sequence, PeriodSamples))

\* the positive lags at which the autocorrelation is strictly above both of
\* its neighbours
StrictPeakLags ==
    {k \in 1..(PeriodSamples - 2) :
        /\ WindowAutocorr[k] > WindowAutocorr[k - 1]
        /\ WindowAutocorr[k] > WindowAutocorr[k + 1]}

PeriodicOf(patterns) == SelectSeq(patterns, LAMBDA p : p.type = "PERIODIC_PATTERN")

\* C27: for a window of at least 20 samples the reported period is the
\* smallest positive lag at which the autocorrelation of the last 20 values
\* is strictly greater than at both neighbouring lags, the reported strength
\* is the autocorrelation at that same lag, and no PERIODIC pattern is
\* emitted when there is no such lag.
C27_PeriodIsFirstPeakWithItsStrength ==
    PeriodCalled =>
        IF StrictPeakLags = {}
        THEN PeriodicOf(result.patterns) = <<>>
        ELSE /\ Len(PeriodicOf(result.patterns)) = 1
             /\ PeriodicOf(result.patterns)[1].period = SetMin(StrictPeakLags)
             /\ PeriodicOf(result.patterns)[1].strength = WindowAutocorr[SetMin(StrictPeakLags)]

(***************************************************************************)
(* C28.  The samples behind a fingerprint.                                 *)
(***************************************************************************)
\* the entries of a history that the statistics of its fingerprint are
\* computed over: `features`
StatisticsSamples(process_history) == SelectSeq(process_history, HasRss)

FingerprintOfFive(process_history, dna_info) ==
    /\ Len(process_history) < DnaMinSamples => dna_info = None
    /\ (/\ Len(process_history) >= DnaMinSamples
        /\ \A k \in 1..Len(process_history) : process_history[k].rss > 0)
           => (dna_info # None /\ {"hash", "pattern"} \subseteq DOMAIN dna_info)
    /\ dna_info # None =>
           /\ dna_info.pattern = DnaPattern(StatisticsSamples(process_history))
           /\ Len(StatisticsSamples(process_history)) >= DnaMinSamples

\* C28: calculate_process_dna returns no fingerprint for a history of fewer
\* than 5 samples, returns a fingerprint with a hash and a pattern for every
\* history of at least 5 samples of positive resident size, and the
\* statistics of every fingerprint it returns are computed over at least 5
\* samples.
C28_FingerprintOverAtLeastFiveSamples ==
    DnaCalled =>
        /\ FingerprintOfFive(arg.first, result.first)
        /\ FingerprintOfFive(arg.second, result.second)

(***************************************************************************)
(* C29.  What a leak verdict depends on.                                   *)
(***************************************************************************)
VerdictCalled == script = "leak_verdict" /\ result # NoCall

\* the most recent up to n values of a run
RecentValues(run, n) == SubSeq(run, IF Len(run) > n THEN Len(run) - n + 1 ELSE 1, Len(run))

\* whether a leak is reported, and how severe
MonitorLeak(verdicts) == [k \in 1..Len(verdicts.monitor) |-> verdicts.monitor[k].risk_level]
TrackerLeak(verdicts) == [k \in 1..Len(verdicts.tracker.anomalies) |-> verdicts.tracker.anomalies[k].severity]

\* C29: the leak verdict for an entity is derived solely from its most
\* recent memory sizes, at most the last 20: two runs of samples that end in
\* the same 20 values get the same verdict, from the monitor and from the
\* tracker, whatever older values and earlier fingerprints there were.
C29_VerdictFromRecentValuesOnly ==
    (VerdictCalled /\ RecentValues(arg.first, 20) = RecentValues(arg.second, 20)) =>
        /\ MonitorLeak(result.first) = MonitorLeak(result.second)
        /\ TrackerLeak(result.first) = TrackerLeak(result.second)

(***************************************************************************)
(* C30.  The fingerprint kept in memory and the database.                  *)
(***************************************************************************)
\* the fingerprint of pid in memory is another one after the step
DnaReplaced(pid) ==
    /\ pid \in DOMAIN process_dna'
    /\ pid \notin DOMAIN process_dna \/ process_dna'[pid] # process_dna[pid]

\* the step has written the fingerprint that is now in memory to the database
DnaWritten(pid) ==
    /\ pid \in DOMAIN db_dna'
    /\ db_dna'[pid] = [dna_hash |-> process_dna'[pid].hash, last_updated |-> now']

C30_Step ==
    script = "track_processes_tick" =>
        /\ DOMAIN process_dna \subseteq DOMAIN process_dna'
        /\ \A pid \in DOMAIN process_dna' : DnaReplaced(pid) => DnaWritten(pid)

\* C30: process_dna[pid] is replaced only by a fingerprint that
\* update_process_dna has written to the database in the same call; when the
\* write fails, the history is shorter than 5 or there is no fingerprint,
\* the fingerprints in memory stay as they were.
C30_CacheReplacedOnlyWithWrittenFingerprint == [][C30_Step]_vars

====
